---- MODULE Spec2Model ----
(***************************************************************************)
(* Realtime session-protocol clients of career-mvp.                        *)
(*                                                                         *)
(* One client object is modelled at a time; `variant` says which class it  *)
(* is an instance of:                                                      *)
(*   "browser"  RealtimeBrowserClient  (WebSocket, auto-reconnect)         *)
(*   "exact"    ExactRealtimeClient    (WebSocket, subprotocol auth)       *)
(*   "webrtc"   RealtimeClient         (RTCPeerConnection + data channel)  *)
(*   "simple"   SimpleRealtimeClient   (WebSocket, handler lists)          *)
(*                                                                         *)
(* A transport object (WebSocket, RTCDataChannel) is a record of its       *)
(* readyState and of what has been done to it.  `ws` is the object the     *)
(* client's field refers to; `detached` counts the objects the client has  *)
(* let go of (this.ws = null, or overwritten by a later connect()) that    *)
(* are not CLOSED yet: their handlers are closures over `this` and still   *)
(* run.  Transport objects have no identity beyond their state, so the     *)
(* detached ones are kept as a multiset.                                   *)
(*                                                                         *)
(* Spec lets every method and every handler run in any order.  SpecOrder   *)
(* follows one open connection frame by frame: the frames the peer sends   *)
(* wait in `inbox` for their message events, and `heard` records what each *)
(* of them made the client emit.                                           *)
(***************************************************************************)
EXTENDS Integers, Sequences, FiniteSets, TLC

\* ---- bounds of the model ------------------------------------------------
\* transport objects that are not CLOSED, at any one time
MaxSockets == 2
\* setTimeout callbacks pending at any one time
MaxTimers == 2
\* frames the peer sends on one connection while their order is followed
MaxFrames == 3

\* ---- program constants --------------------------------------------------
maxReconnectAttempts == 5
reconnectDelay == 1000
maxBackoffDelay == 30000

Variants == {"browser", "exact", "webrtc", "simple"}

VARIABLES
    variant,            \* class of the client under analysis
    ws,                 \* the transport this.ws / this.dc refers to (NullSock: null)
    detached,           \* live transports the client no longer refers to
    isConnected,        \* this.isConnected / this.connected
    sessionId,          \* this.sessionId
    reconnectTimer,     \* this.reconnectTimer: "null", or the timer it names is
                        \* "pending" or "fired"
    timers,             \* number of pending reconnect setTimeout callbacks
    reconnectAttempts,  \* this.reconnectAttempts
    pc,                 \* RealtimeClient.pc: "null" or "set"
    awaitingMedia,      \* RealtimeClient.connect() calls suspended in getUserMedia
    pingInterval,       \* RealtimeClient.pingInterval: "null" or "set"
    pings,              \* number of setInterval ping timers that are running
    conversationId,     \* RealtimeClient.conversationId
    errorListener,      \* a subscriber is registered for 'error'
    emitted,            \* emit() calls made by the last step, in order
    scheduledDelay,     \* delay handed to setTimeout by the last step (0: none)
    lastWrite,          \* readyState the transport's send() saw in the last step
    wrote,              \* type of the frame handed to send() in the last step
    ret,                \* how the last API call came back to its caller
    uncaught,           \* the last callback let an exception escape
    settle,             \* the last step resolved / rejected a connect() promise
    scheduledSinceOpen, \* history: reconnections scheduled since the last open
    userStopped,        \* history: the caller's disconnect() returned and the
                        \* caller has not called connect() since
    inbox,              \* frames the transport has received on this.ws and not
                        \* yet dispatched as message events, oldest first
    arrived,            \* history: frames received on this.ws so far
    heard,              \* history: the emit() calls made for the frames of
                        \* this.ws, as <<frame number, event name>>
    audio,              \* one buffer on its way through the base64 encoder of
                        \* a client and the decoder of the AudioPlayer
    lastSignal,         \* history: the later of 'connected' and 'disconnected'
                        \* the subscribers have seen ("off": not followed)
    demux,              \* one inbound frame on its way through the event switch
                        \* of a client
    eventHandlers,      \* SimpleRealtimeClient / ExactRealtimeClient
                        \* eventHandlers.get(e) for one event name e, as a list
    dispatch,           \* the forEach of an emit(e) in progress
    created,            \* the frame built by the last createResponse(options)
    hook,               \* useRealtimeAPI: clientRef, state and connect() calls
    player              \* AudioPlayer: queue, isPlaying and buffer sources

client == <<ws, detached, isConnected, sessionId, reconnectTimer, timers,
            reconnectAttempts>>
rtc == <<pc, awaitingMedia, pingInterval, pings, conversationId>>
outputs == <<emitted, scheduledDelay, lastWrite, wrote, ret, uncaught, settle>>
order == <<inbox, arrived, heard>>
\* what no method and no handler of the client assigns
\* the components followed on their own
apart == <<audio, demux, eventHandlers, dispatch, created, hook, player>>
fixed == <<variant, order, apart, lastSignal>>
\* the client and its transports
main == <<variant, client, rtc, errorListener, outputs, scheduledSinceOpen,
          userStopped, order, lastSignal>>
vars == <<main, apart>>

\* ---- transport objects --------------------------------------------------
\* rs: readyState; opened: it has been OPEN; closedBy: who called close() on
\* it ("none", "user": disconnect() by the caller, "auth": disconnect() from
\* the error handler); srv: the peer started the closing handshake.
\* Data channels only: exec says whether the connect() call that created the
\* channel is still suspended in its SDP exchange ("none": no), and whether
\* this.pc is still the peer connection that call works on ("cur") or has been
\* replaced or cleared since ("old").  A channel whose SDP exchange failed
\* stays in readyState 'connecting' for good: rs = "STALLED".
Sock(rs, opened, closedBy, srv) ==
    [rs |-> rs, opened |-> opened, closedBy |-> closedBy, srv |-> srv,
     exec |-> "none"]

NullSock == Sock("NULL", FALSE, "none", FALSE)
ClosedSock == Sock("CLOSED", FALSE, "none", FALSE)
NewSocket == Sock("CONNECTING", FALSE, "none", FALSE)

LiveKinds ==
    {NewSocket, Sock("OPEN", TRUE, "none", FALSE)}
    \cup {Sock("CLOSING", TRUE, c, TRUE) : c \in {"none", "user", "auth"}}
    \cup {Sock("CLOSING", o, c, FALSE) : o \in BOOLEAN, c \in {"user", "auth"}}
    \cup {[NewSocket EXCEPT !.exec = "cur"], [NewSocket EXCEPT !.exec = "old"],
          [Sock("CLOSING", FALSE, "user", FALSE) EXCEPT !.exec = "old"],
          Sock("STALLED", FALSE, "none", FALSE)}

Live(r) == r.rs \in {"CONNECTING", "OPEN", "CLOSING", "STALLED"}

RECURSIVE SumOver(_, _)
SumOver(f, S) ==
    IF S = {} THEN 0
    ELSE LET x == CHOOSE y \in S : TRUE IN f[x] + SumOver(f, S \ {x})

\* the client's transports as one value
Transports == [ws |-> ws, det |-> detached]

LiveCount(T) == (IF Live(T.ws) THEN 1 ELSE 0) + SumOver(T.det, LiveKinds)

\* A handler runs on a transport the client still refers to (own) or on a
\* detached one.
Targets ==
    {[own |-> TRUE, r |-> ws] : x \in IF Live(ws) THEN {1} ELSE {}}
    \cup {[own |-> FALSE, r |-> k] : k \in {j \in LiveKinds : detached[j] > 0}}

Detach(det, r) == IF Live(r) THEN [det EXCEPT ![r] = det[r] + 1] ELSE det

\* the transport t.r changes to r2
Put(T, t, r2) ==
    IF t.own THEN [T EXCEPT !.ws = r2]
    ELSE [T EXCEPT !.det = Detach([@ EXCEPT ![t.r] = @ - 1], r2)]

\* the transport t.r is CLOSED: a detached one is garbage
Drop(T, t) ==
    IF t.own THEN [T EXCEPT !.ws = ClosedSock]
    ELSE [T EXCEPT !.det = [@ EXCEPT ![t.r] = @ - 1]]

\* WebSocket.close(): no effect on a CLOSING or CLOSED socket.
SocketClose(r, why) ==
    IF r.rs \in {"CONNECTING", "OPEN", "STALLED"}
    THEN [r EXCEPT !.rs = "CLOSING", !.closedBy = why]
    ELSE IF r.rs = "CLOSING" /\ r.closedBy = "none"
    THEN [r EXCEPT !.closedBy = why]
    ELSE r

\* `this.ws.close(); this.ws = null`
CloseAndForget(T, why) ==
    [ws |-> NullSock,
     det |-> IF T.ws.rs = "NULL" THEN T.det ELSE Detach(T.det, SocketClose(T.ws, why))]

\* `this.ws = new WebSocket(...)`: the old object is let go of as it is
ReplaceByNew(T) == [ws |-> NewSocket, det |-> Detach(T.det, T.ws)]

\* <<code, reason contains 'auth', failed>> of the close event
ServerCloseFrames ==
    {<<1000, FALSE, FALSE>>, <<1008, FALSE, FALSE>>, <<1011, FALSE, FALSE>>,
     <<1011, TRUE, FALSE>>}

Abnormal == <<1006, FALSE, TRUE>>

\* What the browser may report when the connection of transport r ends: 1006
\* whenever it was lost or never established; the peer's Close frame after a
\* handshake the peer started; 1000 when the peer answered the client's close.
CloseOutcomes(r) ==
    CASE r.exec # "none" \/ r.rs = "STALLED" -> {}
      [] r.rs \in {"CONNECTING", "OPEN"} -> {Abnormal}
      [] r.rs = "CLOSING" /\ r.srv -> ServerCloseFrames \cup {Abnormal}
      [] r.rs = "CLOSING" /\ ~r.srv /\ r.opened -> {<<1000, FALSE, FALSE>>, Abnormal}
      [] r.rs = "CLOSING" /\ ~r.srv /\ ~r.opened -> {Abnormal}
      [] OTHER -> {}

\* ---- emitted events -----------------------------------------------------
Ev(name, payload, type, code, err) ==
    [name |-> name, payload |-> payload, type |-> type, code |-> code, err |-> err]

NoEmit == <<>>

\* the connection signals among the events evs of one step, in order
ConnectionSignals(evs) ==
    SelectSeq([i \in 1..Len(evs) |-> evs[i].name],
              LAMBDA n : n \in {"connected", "disconnected"})

\* what the subscribers have seen last once the events evs are emitted
Signalled(last, evs) ==
    IF last = "off" \/ ConnectionSignals(evs) = <<>> THEN last
    ELSE ConnectionSignals(evs)[Len(ConnectionSignals(evs))]

\* EventEmitter.emit('error', ...) throws when no 'error' listener is registered.
EmitThrows(evs, listening) ==
    ~listening /\ \E i \in 1..Len(evs) : evs[i].name = "error"

\* ---- inbound frames -----------------------------------------------------
Frame(ok, type, err, sid) == [ok |-> ok, type |-> type, err |-> err, sid |-> sid]

Frames ==
    { Frame(FALSE, "", "", ""),
      Frame(TRUE, "", "", ""),
      Frame(TRUE, "error", "invalid_api_key", ""),
      Frame(TRUE, "error", "authentication_error", ""),
      Frame(TRUE, "error", "rate_limit_exceeded", ""),
      Frame(TRUE, "session.created", "", "sess_abc"),
      Frame(TRUE, "session.created", "", "undefined"),
      Frame(TRUE, "session.created", "", ""),
      Frame(TRUE, "response.text.delta", "", ""),
      Frame(TRUE, "input_audio_buffer.speech_started", "", ""),
      Frame(TRUE, "vendor.unknown", "", "") }

\* ---- outbound commands --------------------------------------------------
Commands ==
    {"session.update", "input_audio_buffer.append", "input_audio_buffer.commit",
     "input_audio_buffer.clear", "response.create", "response.cancel"}

\* WebSocket.send() throws InvalidStateError on a CONNECTING socket and
\* discards the data on a CLOSING or CLOSED one.
SendThrows(r) == r.rs = "CONNECTING"

Min(a, b) == IF a <= b THEN a ELSE b

\* no output of the kinds a step may produce
Quiet ==
    /\ emitted' = NoEmit /\ scheduledDelay' = 0 /\ lastWrite' = "none"
    /\ wrote' = "none" /\ uncaught' = FALSE /\ settle' = "none"

(***************************************************************************)
(* RealtimeBrowserClient                                                   *)
(***************************************************************************)

\* a send test the wrong way round
RealtimeBrowserClient_canSend_inverted(r) == r.rs # "NULL" /\ r.rs # "OPEN"

\* send(): the guard in front of ws.send()
RealtimeBrowserClient_canSend(r) == r.rs # "NULL" /\ r.rs = "OPEN"

\* a close test that looks at the code only and ignores the reason
RealtimeBrowserClient_isAuthClose_codeOnly(code, reasonAuth) == code = 1008

\* onclose: `event.code === 1008 || event.reason?.includes('auth')`
RealtimeBrowserClient_isAuthClose(code, reasonAuth) == code = 1008 \/ reasonAuth

\* a test that never looks at the attempt count
RealtimeBrowserClient_shouldReconnect_unbounded(code, attempts) == code # 1000

\* a retry test that allows one attempt more than the maximum
RealtimeBrowserClient_shouldReconnect_offByOne(code, attempts) ==
    code # 1000 /\ attempts <= maxReconnectAttempts

\* onclose: `event.code !== 1000 && this.reconnectAttempts < this.maxReconnectAttempts`
RealtimeBrowserClient_shouldReconnect(code, attempts) ==
    code # 1000 /\ attempts < maxReconnectAttempts

\* a delay that doubles once too often
RealtimeBrowserClient_backoff_early(attempts) ==
    Min(reconnectDelay * 2^attempts, maxBackoffDelay)

\* scheduleReconnect: the delay, computed after the increment
RealtimeBrowserClient_backoff(attempts) ==
    Min(reconnectDelay * 2^(attempts - 1), maxBackoffDelay)

\* an open that keeps the attempt counter
RealtimeBrowserClient_attemptsOnOpen_kept(attempts) == attempts

\* onopen: `this.reconnectAttempts = 0`
RealtimeBrowserClient_attemptsOnOpen(attempts) == 0

\* an error test that takes every code for an authentication code
RealtimeBrowserClient_isAuthError_any(err) == err # ""

\* handleError: `error.code === 'invalid_api_key' || error.code === 'authentication_error'`
RealtimeBrowserClient_isAuthError(err) ==
    err = "invalid_api_key" \/ err = "authentication_error"

\* handleMessage: the name each frame type is re-emitted under, and its payload
RealtimeBrowserClient_emitName(type) ==
    CASE type = "conversation.item.input_audio_transcription.completed"
            -> "transcription.completed"
      [] type = "conversation.item.input_audio_transcription.failed"
            -> "transcription.failed"
      [] type = "input_audio_buffer.speech_started" -> "speech.started"
      [] type = "input_audio_buffer.speech_stopped" -> "speech.stopped"
      [] OTHER -> type

RealtimeBrowserClient_emitPayload(type) ==
    CASE type \in {"session.created", "session.updated"} -> "session"
      [] type = "conversation.item.created" -> "item"
      [] type \in {"response.created", "response.done"} -> "response"
      [] type \in {"response.text.delta", "response.audio_transcript.delta",
                   "response.audio.delta"} -> "delta"
      [] type = "response.text.done" -> "text"
      [] type = "response.audio_transcript.done" -> "transcript"
      [] type = "rate_limits.updated" -> "rate_limits"
      [] OTHER -> "frame"

\* connect(): `this.ws = new WebSocket(wsUrl)` and the handlers; no other
\* field is touched and nothing is checked first.
RealtimeBrowserClient_connectBody ==
    /\ LiveCount(ReplaceByNew(Transports)) <= MaxSockets
    /\ ws' = ReplaceByNew(Transports).ws
    /\ detached' = ReplaceByNew(Transports).det

RealtimeBrowserClient_connect ==
    /\ variant = "browser"
    /\ RealtimeBrowserClient_connectBody
    /\ userStopped' = FALSE
    /\ Quiet /\ ret' = "returned"
    /\ UNCHANGED <<fixed, rtc, isConnected, sessionId, reconnectTimer, timers,
                   reconnectAttempts, errorListener, scheduledSinceOpen>>

\* The setTimeout callback of scheduleReconnect, `this.connect().catch(...)`.
\* tracked: the timer that fires is the one this.reconnectTimer names.
RealtimeBrowserClient_reconnectTimerFires(tracked) ==
    /\ variant = "browser"
    /\ IF tracked THEN reconnectTimer = "pending"
       ELSE timers > (IF reconnectTimer = "pending" THEN 1 ELSE 0)
    /\ RealtimeBrowserClient_connectBody
    /\ timers' = timers - 1
    /\ reconnectTimer' = IF tracked THEN "fired" ELSE reconnectTimer
    /\ Quiet /\ ret' = "none"
    /\ UNCHANGED <<fixed, rtc, isConnected, sessionId, reconnectAttempts,
                   errorListener, scheduledSinceOpen, userStopped>>

\* an authentication message of a type of its own
RealtimeBrowserClient_sendAuthMessage_ownType == "auth"

\* sendAuthMessage(): the type of the frame it hands to send(), a session
\* configuration with fixed values and the API key
RealtimeBrowserClient_sendAuthMessage == "session.update"

\* ws.onopen, with sendAuthMessage() -> send()
RealtimeBrowserClient_onopen(t) ==
    /\ variant = "browser"
    /\ t \in Targets /\ t.r.rs = "CONNECTING"
    /\ LET T == Put(Transports, t, [t.r EXCEPT !.rs = "OPEN", !.opened = TRUE])
       IN  /\ ws' = T.ws /\ detached' = T.det
           /\ lastWrite' = IF RealtimeBrowserClient_canSend(T.ws)
                           THEN T.ws.rs ELSE "none"
           /\ wrote' = IF RealtimeBrowserClient_canSend(T.ws)
                       THEN RealtimeBrowserClient_sendAuthMessage ELSE "none"
    /\ isConnected' = TRUE
    /\ reconnectAttempts' = RealtimeBrowserClient_attemptsOnOpen(reconnectAttempts)
    /\ scheduledSinceOpen' = 0
    /\ emitted' = <<Ev("connected", "none", "", 0, "")>>
    /\ settle' = "resolved"
    /\ scheduledDelay' = 0 /\ ret' = "none" /\ uncaught' = FALSE
    /\ lastSignal' = Signalled(lastSignal, emitted')
    /\ UNCHANGED <<variant, order, apart, rtc, sessionId, reconnectTimer, timers, errorListener,
                   userStopped>>

\* send(data), reached from updateSession, appendInputAudio, commitInputAudio,
\* clearInputAudio, createResponse and cancelResponse
RealtimeBrowserClient_send(cmd) ==
    /\ variant = "browser"
    /\ cmd \in Commands
    /\ lastWrite' = IF RealtimeBrowserClient_canSend(ws) THEN ws.rs ELSE "none"
    /\ wrote' = IF RealtimeBrowserClient_canSend(ws) THEN cmd ELSE "none"
    /\ ret' = "returned"
    /\ emitted' = NoEmit /\ scheduledDelay' = 0 /\ uncaught' = FALSE
    /\ settle' = "none"
    /\ UNCHANGED <<fixed, rtc, client, errorListener, scheduledSinceOpen, userStopped>>

\* disconnect(): clearTimeout, close and forget the socket, clear the flags
RealtimeBrowserClient_disconnectBody(why) ==
    /\ timers' = IF reconnectTimer = "pending" THEN timers - 1 ELSE timers
    /\ reconnectTimer' = "null"
    /\ ws' = CloseAndForget(Transports, why).ws
    /\ detached' = CloseAndForget(Transports, why).det
    /\ isConnected' = FALSE
    /\ sessionId' = "null"

RealtimeBrowserClient_disconnect ==
    /\ variant = "browser"
    /\ RealtimeBrowserClient_disconnectBody("user")
    /\ userStopped' = TRUE
    /\ Quiet /\ ret' = "returned"
    /\ UNCHANGED <<fixed, rtc, reconnectAttempts, errorListener, scheduledSinceOpen>>

\* handleMessage 'session.created': `this.sessionId = (data as any).session?.id`
RealtimeBrowserClient_capturedId(id) == id

\* handleMessage / handleError: the emit() calls made for one inbound frame.
\* A frame that does not parse, or has no type, reaches no emit().
RealtimeBrowserClient_emissions(f) ==
    IF ~f.ok \/ f.type = "" THEN NoEmit
    ELSE IF f.type = "error" /\ RealtimeBrowserClient_isAuthError(f.err)
    THEN <<Ev("error", "object", "authentication_error", 0, f.err)>>
    ELSE IF f.type = "error"
    THEN <<Ev("error", "error", "", 0, f.err)>>
    ELSE <<Ev(RealtimeBrowserClient_emitName(f.type),
              RealtimeBrowserClient_emitPayload(f.type), "", 0, "")>>

\* ws.onmessage -> JSON.parse -> handleMessage -> handleError.  An exception
\* thrown below JSON.parse (a failed parse, emit('error') without a listener)
\* ends the handler in its catch block.
RealtimeBrowserClient_onmessage(t, f) ==
    /\ variant = "browser"
    /\ t \in Targets /\ t.r.rs = "OPEN"
    /\ f \in Frames
    /\ emitted' = RealtimeBrowserClient_emissions(f)
    /\ scheduledDelay' = 0 /\ lastWrite' = "none" /\ wrote' = "none" /\ ret' = "none"
    /\ uncaught' = FALSE /\ settle' = "none"
    /\ UNCHANGED <<variant, apart, lastSignal, rtc, reconnectAttempts, errorListener, scheduledSinceOpen,
                   userStopped>>
    /\ IF f.ok /\ f.type = "error" /\ RealtimeBrowserClient_isAuthError(f.err)
          /\ errorListener
       THEN RealtimeBrowserClient_disconnectBody("auth")
       ELSE /\ sessionId' = IF f.ok /\ f.type = "session.created"
                            THEN RealtimeBrowserClient_capturedId(f.sid)
                            ELSE sessionId
            /\ UNCHANGED <<ws, detached, isConnected, reconnectTimer, timers>>

\* The task that ends a socket: readyState CLOSED, then ws.onerror when the
\* connection failed, then ws.onclose, which calls scheduleReconnect().
RealtimeBrowserClient_onclose(t, o) ==
    /\ variant = "browser"
    /\ t \in Targets
    /\ o \in CloseOutcomes(t.r)
    /\ LET code == o[1]
           auth == RealtimeBrowserClient_isAuthClose(o[1], o[2])
           again == ~auth /\ RealtimeBrowserClient_shouldReconnect(code, reconnectAttempts)
           errEv == IF o[3] THEN <<Ev("error", "object", "websocket_error", 0, "")>>
                    ELSE <<>>
           authEv == IF auth
                     THEN <<Ev("error", "object", "authentication_error", code, "")>>
                     ELSE <<>>
           T == Drop(Transports, t)
       IN  /\ again => timers < MaxTimers
           /\ ws' = T.ws /\ detached' = T.det
           /\ isConnected' = FALSE
           /\ emitted' = errEv \o <<Ev("disconnected", "close", "", code, "")>> \o authEv
           /\ uncaught' = EmitThrows(errEv \o authEv, errorListener)
           /\ settle' = IF auth /\ errorListener /\ ~t.r.opened
                        THEN "rejected" ELSE "none"
           /\ IF again
              THEN /\ reconnectAttempts' = reconnectAttempts + 1
                   /\ scheduledDelay' =
                          RealtimeBrowserClient_backoff(reconnectAttempts + 1)
                   /\ timers' = timers + 1
                   /\ reconnectTimer' = "pending"
                   /\ scheduledSinceOpen' = scheduledSinceOpen + 1
              ELSE /\ scheduledDelay' = 0
                   /\ UNCHANGED <<reconnectAttempts, timers, reconnectTimer,
                                  scheduledSinceOpen>>
    /\ lastWrite' = "none" /\ wrote' = "none" /\ ret' = "none"
    /\ lastSignal' = Signalled(lastSignal, emitted')
    /\ UNCHANGED <<variant, order, apart, rtc, sessionId, errorListener, userStopped>>

\* getSessionId(): `return this.sessionId`
RealtimeBrowserClient_getSessionId == sessionId

(***************************************************************************)
(* ExactRealtimeClient                                                     *)
(***************************************************************************)

\* send(): `this.ws && this.connected`
ExactRealtimeClient_canSend(r, connected) == r.rs # "NULL" /\ connected

\* connect(): `this.ws = new WebSocket(wsUrl, [...])` and the handlers
ExactRealtimeClient_connect ==
    /\ variant = "exact"
    /\ LiveCount(ReplaceByNew(Transports)) <= MaxSockets
    /\ ws' = ReplaceByNew(Transports).ws
    /\ detached' = ReplaceByNew(Transports).det
    /\ userStopped' = FALSE
    /\ Quiet /\ ret' = "returned"
    /\ UNCHANGED <<fixed, rtc, isConnected, sessionId, reconnectTimer, timers,
                   reconnectAttempts, errorListener, scheduledSinceOpen>>

\* ws.onopen
ExactRealtimeClient_onopen(t) ==
    /\ variant = "exact"
    /\ t \in Targets /\ t.r.rs = "CONNECTING"
    /\ LET T == Put(Transports, t, [t.r EXCEPT !.rs = "OPEN", !.opened = TRUE])
       IN  ws' = T.ws /\ detached' = T.det
    /\ isConnected' = TRUE
    /\ settle' = "resolved"
    /\ emitted' = NoEmit /\ scheduledDelay' = 0 /\ lastWrite' = "none" /\ wrote' = "none"
    /\ ret' = "none" /\ uncaught' = FALSE
    /\ lastSignal' = Signalled(lastSignal, emitted')
    /\ UNCHANGED <<variant, order, apart, rtc, sessionId, reconnectTimer, timers,
                   reconnectAttempts, errorListener, scheduledSinceOpen, userStopped>>

\* ws.onmessage: the handler registered for data.type, then the one for '*'
ExactRealtimeClient_emissions(f) ==
    IF ~f.ok THEN NoEmit
    ELSE (IF f.type = "" THEN <<>> ELSE <<Ev(f.type, "frame", "", 0, "")>>)
         \o <<Ev("*", "frame", "", 0, "")>>

ExactRealtimeClient_onmessage(t, f) ==
    /\ variant = "exact"
    /\ t \in Targets /\ t.r.rs = "OPEN"
    /\ f \in Frames
    /\ emitted' = ExactRealtimeClient_emissions(f)
    /\ scheduledDelay' = 0 /\ lastWrite' = "none" /\ wrote' = "none" /\ ret' = "none"
    /\ uncaught' = FALSE /\ settle' = "none"
    /\ UNCHANGED <<variant, apart, lastSignal, client, rtc, errorListener, scheduledSinceOpen,
                   userStopped>>

\* The task that ends a socket: ws.onerror when the connection failed (the
\* 'error' handler, then reject), then ws.onclose.
ExactRealtimeClient_onclose(t, o) ==
    /\ variant = "exact"
    /\ t \in Targets
    /\ o \in CloseOutcomes(t.r)
    /\ LET T == Drop(Transports, t) IN ws' = T.ws /\ detached' = T.det
    /\ isConnected' = FALSE
    /\ emitted' = IF o[3] THEN <<Ev("error", "object", "error", 0, "")>> ELSE NoEmit
    /\ settle' = IF o[3] /\ ~t.r.opened THEN "rejected" ELSE "none"
    /\ scheduledDelay' = 0 /\ lastWrite' = "none" /\ wrote' = "none" /\ ret' = "none"
    /\ uncaught' = FALSE
    /\ lastSignal' = Signalled(lastSignal, emitted')
    /\ UNCHANGED <<variant, order, apart, rtc, sessionId, reconnectTimer, timers,
                   reconnectAttempts, errorListener, scheduledSinceOpen, userStopped>>

\* send(event), also reached from sendAudio() (behind the same test) and
\* createResponse()
ExactRealtimeClient_send(cmd) ==
    /\ variant = "exact"
    /\ cmd \in {"session.update", "input_audio_buffer.append", "response.create"}
    /\ lastWrite' = IF ExactRealtimeClient_canSend(ws, isConnected)
                    THEN ws.rs ELSE "none"
    /\ wrote' = IF ExactRealtimeClient_canSend(ws, isConnected) THEN cmd ELSE "none"
    /\ ret' = IF ExactRealtimeClient_canSend(ws, isConnected) /\ SendThrows(ws)
              THEN "threw" ELSE "returned"
    /\ emitted' = NoEmit /\ scheduledDelay' = 0 /\ uncaught' = FALSE
    /\ settle' = "none"
    /\ UNCHANGED <<fixed, client, rtc, errorListener, scheduledSinceOpen,
                   userStopped>>

\* disconnect()
ExactRealtimeClient_disconnect ==
    /\ variant = "exact"
    /\ ws' = CloseAndForget(Transports, "user").ws
    /\ detached' = CloseAndForget(Transports, "user").det
    /\ isConnected' = FALSE
    /\ userStopped' = TRUE
    /\ Quiet /\ ret' = "returned"
    /\ UNCHANGED <<fixed, rtc, sessionId, reconnectTimer, timers,
                   reconnectAttempts, errorListener, scheduledSinceOpen>>

(***************************************************************************)
(* SimpleRealtimeClient                                                    *)
(***************************************************************************)

\* send(): `this.ws && this.connected && this.ws.readyState === WebSocket.OPEN`
SimpleRealtimeClient_canSend(r, connected) ==
    r.rs # "NULL" /\ connected /\ r.rs = "OPEN"

\* a handler that emits whether or not the frame parsed
SimpleRealtimeClient_emissions_always(f) ==
    <<Ev(f.type, "frame", "", 0, ""), Ev("*", "frame", "", 0, "")>>

\* ws.onmessage: `this.emit(data.type, data); this.emit('*', data)`; emit()
\* looks the name up in the handler lists and throws nothing of its own
SimpleRealtimeClient_emissions(f) ==
    IF ~f.ok THEN NoEmit
    ELSE <<Ev(f.type, "frame", "", 0, ""), Ev("*", "frame", "", 0, "")>>

\* the code a close event carries: disconnect() calls ws.close() without a
\* status, which a clean closing handshake reports as 1005
SimpleRealtimeClient_closeCode(r, o) ==
    IF r.closedBy = "user" /\ o[1] = 1000 THEN 1005 ELSE o[1]

\* connect(): `this.ws = new WebSocket(wsUrl, [...])` and the handlers
SimpleRealtimeClient_connect ==
    /\ variant = "simple"
    /\ LiveCount(ReplaceByNew(Transports)) <= MaxSockets
    /\ ws' = ReplaceByNew(Transports).ws
    /\ detached' = ReplaceByNew(Transports).det
    /\ userStopped' = FALSE
    /\ Quiet /\ ret' = "returned"
    /\ UNCHANGED <<fixed, rtc, isConnected, sessionId, reconnectTimer, timers,
                   reconnectAttempts, errorListener, scheduledSinceOpen>>

\* ws.onopen
SimpleRealtimeClient_onopen(t) ==
    /\ variant = "simple"
    /\ t \in Targets /\ t.r.rs = "CONNECTING"
    /\ LET T == Put(Transports, t, [t.r EXCEPT !.rs = "OPEN", !.opened = TRUE])
       IN  ws' = T.ws /\ detached' = T.det
    /\ isConnected' = TRUE
    /\ emitted' = <<Ev("connected", "object", "", 0, "")>>
    /\ settle' = "resolved"
    /\ scheduledDelay' = 0 /\ lastWrite' = "none" /\ wrote' = "none"
    /\ ret' = "none" /\ uncaught' = FALSE
    /\ lastSignal' = Signalled(lastSignal, emitted')
    /\ UNCHANGED <<variant, order, apart, rtc, sessionId, reconnectTimer, timers,
                   reconnectAttempts, errorListener, scheduledSinceOpen, userStopped>>

\* ws.onmessage
SimpleRealtimeClient_onmessage(t, f) ==
    /\ variant = "simple"
    /\ t \in Targets /\ t.r.rs = "OPEN"
    /\ f \in Frames
    /\ emitted' = SimpleRealtimeClient_emissions(f)
    /\ scheduledDelay' = 0 /\ lastWrite' = "none" /\ wrote' = "none" /\ ret' = "none"
    /\ uncaught' = FALSE /\ settle' = "none"
    /\ UNCHANGED <<variant, apart, lastSignal, client, rtc, errorListener, scheduledSinceOpen,
                   userStopped>>

\* The task that ends a socket: ws.onerror when the connection failed
\* (emit 'error', reject), then ws.onclose (connected = false, emit
\* 'disconnected').
SimpleRealtimeClient_onclose(t, o) ==
    /\ variant = "simple"
    /\ t \in Targets
    /\ o \in CloseOutcomes(t.r)
    /\ LET T == Drop(Transports, t) IN ws' = T.ws /\ detached' = T.det
    /\ isConnected' = FALSE
    /\ emitted' = (IF o[3] THEN <<Ev("error", "object", "websocket_error", 0, "")>>
                           ELSE <<>>)
                  \o <<Ev("disconnected", "object", "",
                          SimpleRealtimeClient_closeCode(t.r, o), "")>>
    /\ settle' = IF o[3] /\ ~t.r.opened THEN "rejected" ELSE "none"
    /\ scheduledDelay' = 0 /\ lastWrite' = "none" /\ wrote' = "none" /\ ret' = "none"
    /\ uncaught' = FALSE
    /\ lastSignal' = Signalled(lastSignal, emitted')
    /\ UNCHANGED <<variant, order, apart, rtc, sessionId, reconnectTimer, timers,
                   reconnectAttempts, errorListener, scheduledSinceOpen, userStopped>>

\* send(event), reached from updateSession(), sendAudio() (which returns
\* first when not connected), commitAudio(), clearAudio(), createResponse()
\* and cancelResponse()
SimpleRealtimeClient_send(cmd) ==
    /\ variant = "simple"
    /\ cmd \in Commands
    /\ lastWrite' = IF SimpleRealtimeClient_canSend(ws, isConnected)
                    THEN ws.rs ELSE "none"
    /\ wrote' = IF SimpleRealtimeClient_canSend(ws, isConnected) THEN cmd ELSE "none"
    /\ ret' = "returned"
    /\ emitted' = NoEmit /\ scheduledDelay' = 0 /\ uncaught' = FALSE
    /\ settle' = "none"
    /\ UNCHANGED <<fixed, client, rtc, errorListener, scheduledSinceOpen,
                   userStopped>>

\* disconnect()
SimpleRealtimeClient_disconnect ==
    /\ variant = "simple"
    /\ ws' = CloseAndForget(Transports, "user").ws
    /\ detached' = CloseAndForget(Transports, "user").det
    /\ isConnected' = FALSE
    /\ userStopped' = TRUE
    /\ Quiet /\ ret' = "returned"
    /\ UNCHANGED <<fixed, rtc, sessionId, reconnectTimer, timers,
                   reconnectAttempts, errorListener, scheduledSinceOpen>>

(***************************************************************************)
(* RealtimeClient (RTCPeerConnection + data channel)                       *)
(***************************************************************************)

\* a test that lets nothing through
RealtimeClient_canSend_never(r) == r.rs = "NULL" /\ r.rs = "OPEN"

\* sendEvent(): `!this.dc || this.dc.readyState !== 'open'` throws
RealtimeClient_canSend(r) == r.rs # "NULL" /\ r.rs = "OPEN"

\* startPingInterval's callback: `this.isConnected && this.dc?.readyState === 'open'`
RealtimeClient_canPing(r, connected) == connected /\ r.rs = "OPEN"

\* the 'open' listener: `this.reconnectAttempts = 0`
RealtimeClient_attemptsOnOpen(attempts) == 0

\* attemptReconnect(): the delay.  The method is private and has no caller.
RealtimeClient_attemptReconnectDelay(attempts) == reconnectDelay * 2^(attempts - 1)

\* handleServerEvent: what is passed to emit() for each event type
RealtimeClient_emitPayload(type) ==
    CASE type = "error" -> "error"
      [] type \in {"session.created", "session.updated"} -> "session"
      [] type = "conversation.created" -> "conversation"
      [] type \in {"conversation.item.created", "response.output_item.added",
                   "response.output_item.done"} -> "item"
      [] type \in {"response.created", "response.done"} -> "response"
      [] type \in {"response.text.delta", "response.audio_transcript.delta",
                   "response.audio.delta"} -> "delta"
      [] type = "response.text.done" -> "text"
      [] type = "response.audio_transcript.done" -> "transcript"
      [] type = "rate_limits.updated" -> "rate_limits"
      [] OTHER -> "frame"

\* this.pc is replaced or cleared: the suspended connect() calls of the
\* channels made on the old peer connection can no longer complete
NotCur(r) == IF r.exec = "cur" THEN [r EXCEPT !.exec = "old"] ELSE r

MarkOld(T) ==
    [ws |-> NotCur(T.ws),
     det |-> [k \in LiveKinds |->
                IF k.exec = "cur" THEN 0
                ELSE T.det[k] + (IF k.exec = "old" /\ [k EXCEPT !.exec = "cur"] \in LiveKinds
                                 THEN T.det[[k EXCEPT !.exec = "cur"]] ELSE 0)]]

\* connect(), up to `await getUserMedia(...)`
RealtimeClient_connect ==
    /\ variant = "webrtc"
    /\ LiveCount(Transports) + awaitingMedia < MaxSockets
    /\ pc' = "set"
    /\ awaitingMedia' = awaitingMedia + 1
    /\ ws' = MarkOld(Transports).ws /\ detached' = MarkOld(Transports).det
    /\ userStopped' = FALSE
    /\ Quiet /\ ret' = "returned"
    /\ UNCHANGED <<fixed, isConnected, sessionId, reconnectTimer, timers,
                   reconnectAttempts, pingInterval, pings, conversationId,
                   errorListener, scheduledSinceOpen>>

\* connect() resumes after getUserMedia: addTrack on this.pc, then
\* `this.dc = this.pc.createDataChannel(...)` and its listeners, up to the
\* first await of the SDP exchange.  The microphone may be refused, and
\* this.pc may have been cleared by disconnect() meanwhile.
RealtimeClient_mediaSettles(ok) ==
    /\ variant = "webrtc"
    /\ awaitingMedia > 0
    /\ awaitingMedia' = awaitingMedia - 1
    /\ IF ok /\ pc = "set"
       THEN /\ ws' = [NewSocket EXCEPT !.exec = "cur"]
            /\ detached' = Detach(detached, ws)
            /\ settle' = "none"
       ELSE /\ settle' = "rejected"
            /\ UNCHANGED <<ws, detached>>
    /\ emitted' = NoEmit /\ scheduledDelay' = 0 /\ lastWrite' = "none" /\ wrote' = "none"
    /\ ret' = "none" /\ uncaught' = FALSE
    /\ UNCHANGED <<fixed, isConnected, sessionId, reconnectTimer, timers,
                   reconnectAttempts, pc, pingInterval, pings, conversationId,
                   errorListener, scheduledSinceOpen, userStopped>>

\* connect() resumes after the SDP exchange (createOffer, setLocalDescription,
\* fetch, setRemoteDescription): it completes, or an await threw and the catch
\* block rejects.  It can complete only on the peer connection it started on.
RealtimeClient_sdpSettles(t, ok) ==
    /\ variant = "webrtc"
    /\ t \in Targets /\ t.r.exec # "none"
    /\ ok => (t.r.exec = "cur" /\ t.r.rs = "CONNECTING")
    /\ LET r2 == IF ok THEN [t.r EXCEPT !.exec = "none"]
                 ELSE IF t.r.rs = "CONNECTING"
                 THEN [t.r EXCEPT !.exec = "none", !.rs = "STALLED"]
                 ELSE [t.r EXCEPT !.exec = "none"]
           T == Put(Transports, t, r2)
       IN  ws' = T.ws /\ detached' = T.det
    /\ settle' = IF ok THEN "none" ELSE "rejected"
    /\ emitted' = NoEmit /\ scheduledDelay' = 0 /\ lastWrite' = "none" /\ wrote' = "none"
    /\ ret' = "none" /\ uncaught' = FALSE
    /\ UNCHANGED <<fixed, rtc, isConnected, sessionId, reconnectTimer, timers,
                   reconnectAttempts, errorListener, scheduledSinceOpen, userStopped>>

\* the data channel's 'open' listener, with startPingInterval()
RealtimeClient_dcOpen(t) ==
    /\ variant = "webrtc"
    /\ t \in Targets /\ t.r.rs = "CONNECTING" /\ t.r.exec = "none"
    /\ pings < MaxTimers
    /\ LET T == Put(Transports, t, [t.r EXCEPT !.rs = "OPEN", !.opened = TRUE])
       IN  ws' = T.ws /\ detached' = T.det
    /\ isConnected' = TRUE
    /\ reconnectAttempts' = RealtimeClient_attemptsOnOpen(reconnectAttempts)
    /\ scheduledSinceOpen' = 0
    /\ emitted' = <<Ev("connected", "none", "", 0, "")>>
    /\ pingInterval' = "set" /\ pings' = pings + 1
    /\ settle' = "resolved"
    /\ scheduledDelay' = 0 /\ lastWrite' = "none" /\ wrote' = "none" /\ ret' = "none"
    /\ uncaught' = FALSE
    /\ lastSignal' = Signalled(lastSignal, emitted')
    /\ UNCHANGED <<variant, order, apart, sessionId, reconnectTimer, timers, pc, awaitingMedia,
                   conversationId, errorListener, userStopped>>

\* a channel created with `ordered: false`
RealtimeClient_dcUnordered == FALSE

\* connect(): `this.pc.createDataChannel('oai-events', { ordered: true })`
RealtimeClient_dcOrdered == TRUE

\* a handler that leaves the id where it was
RealtimeClient_capturedId_dropped(id) == "null"

\* handleServerEvent 'session.created' / 'conversation.created':
\* `(event.session as { id?: string })?.id || null`
RealtimeClient_capturedId(id) == IF id \in {"undefined", ""} THEN "null" ELSE id

\* handleServerEvent: the emit() call made for one inbound frame; every case
\* of the switch, the default included, emits under event.type
RealtimeClient_emissions(f) ==
    IF ~f.ok THEN NoEmit
    ELSE <<Ev(f.type, RealtimeClient_emitPayload(f.type), "", 0, f.err)>>

\* the 'message' listener -> JSON.parse -> handleServerEvent
RealtimeClient_dcMessage(t, f) ==
    /\ variant = "webrtc"
    /\ t \in Targets /\ t.r.rs = "OPEN"
    /\ f \in Frames
    /\ emitted' = RealtimeClient_emissions(f)
    /\ sessionId' = IF f.ok /\ f.type = "session.created"
                    THEN RealtimeClient_capturedId(f.sid) ELSE sessionId
    /\ conversationId' = IF f.ok /\ f.type = "conversation.created"
                         THEN RealtimeClient_capturedId(f.sid) ELSE conversationId
    /\ scheduledDelay' = 0 /\ lastWrite' = "none" /\ wrote' = "none" /\ ret' = "none"
    /\ uncaught' = FALSE /\ settle' = "none"
    /\ UNCHANGED <<variant, apart, lastSignal, ws, detached, isConnected, reconnectTimer, timers,
                   reconnectAttempts, pc, awaitingMedia, pingInterval, pings,
                   errorListener, scheduledSinceOpen, userStopped>>

\* the 'error' listener
RealtimeClient_dcError(t) ==
    /\ variant = "webrtc"
    /\ t \in Targets /\ t.r.rs \in {"CONNECTING", "OPEN"} /\ t.r.exec = "none"
    /\ emitted' = <<Ev("error", "object", "", 0, "")>>
    /\ uncaught' = ~errorListener
    /\ settle' = IF errorListener /\ ~isConnected /\ ~t.r.opened
                 THEN "rejected" ELSE "none"
    /\ scheduledDelay' = 0 /\ lastWrite' = "none" /\ wrote' = "none" /\ ret' = "none"
    /\ UNCHANGED <<fixed, client, rtc, errorListener, scheduledSinceOpen,
                   userStopped>>

\* the 'close' listener, with stopPingInterval()
RealtimeClient_dcClose(t) ==
    /\ variant = "webrtc"
    /\ t \in Targets /\ t.r.rs \in {"CONNECTING", "OPEN", "CLOSING"}
    /\ t.r.exec = "none"
    /\ LET T == Drop(Transports, t) IN ws' = T.ws /\ detached' = T.det
    /\ isConnected' = FALSE
    /\ pings' = IF pingInterval = "set" THEN pings - 1 ELSE pings
    /\ pingInterval' = "null"
    /\ emitted' = <<Ev("disconnected", "close", "", 1000, "")>>
    /\ scheduledDelay' = 0 /\ lastWrite' = "none" /\ wrote' = "none" /\ ret' = "none"
    /\ uncaught' = FALSE /\ settle' = "none"
    /\ lastSignal' = Signalled(lastSignal, emitted')
    /\ UNCHANGED <<variant, order, apart, sessionId, reconnectTimer, timers, reconnectAttempts,
                   pc, awaitingMedia, conversationId, errorListener,
                   scheduledSinceOpen, userStopped>>

\* the types of the frames the command emitters hand to sendEvent(): those of
\* the WebSocket client and the three conversation-item commands
RealtimeClient_Commands ==
    Commands \cup {"conversation.item.create", "conversation.item.truncate",
                   "conversation.item.delete"}

\* sendEvent(event), reached from every command emitter
RealtimeClient_sendEvent(cmd) ==
    /\ variant = "webrtc"
    /\ cmd \in RealtimeClient_Commands
    /\ lastWrite' = IF RealtimeClient_canSend(ws) THEN ws.rs ELSE "none"
    /\ wrote' = IF RealtimeClient_canSend(ws) THEN cmd ELSE "none"
    /\ ret' = IF RealtimeClient_canSend(ws) THEN "returned" ELSE "threw"
    /\ emitted' = NoEmit /\ scheduledDelay' = 0 /\ uncaught' = FALSE
    /\ settle' = "none"
    /\ UNCHANGED <<fixed, client, rtc, errorListener, scheduledSinceOpen,
                   userStopped>>

\* a tick of a ping interval: `this.dc.send(JSON.stringify({ type: 'ping' }))`
RealtimeClient_pingTick ==
    /\ variant = "webrtc"
    /\ pings > 0
    /\ lastWrite' = IF RealtimeClient_canPing(ws, isConnected) THEN ws.rs ELSE "none"
    /\ wrote' = IF RealtimeClient_canPing(ws, isConnected) THEN "ping" ELSE "none"
    /\ emitted' = NoEmit /\ scheduledDelay' = 0 /\ uncaught' = FALSE
    /\ settle' = "none" /\ ret' = "none"
    /\ UNCHANGED <<fixed, client, rtc, errorListener, scheduledSinceOpen,
                   userStopped>>

\* disconnect(): stopPingInterval, close and forget dc and pc
RealtimeClient_disconnect ==
    /\ variant = "webrtc"
    /\ pings' = IF pingInterval = "set" THEN pings - 1 ELSE pings
    /\ pingInterval' = "null"
    /\ ws' = CloseAndForget(MarkOld(Transports), "user").ws
    /\ detached' = CloseAndForget(MarkOld(Transports), "user").det
    /\ pc' = "null"
    /\ isConnected' = FALSE
    /\ userStopped' = TRUE
    /\ Quiet /\ ret' = "returned"
    /\ UNCHANGED <<fixed, sessionId, reconnectTimer, timers, reconnectAttempts,
                   awaitingMedia, conversationId, errorListener, scheduledSinceOpen>>

\* getSessionId(): `return this.sessionId`
RealtimeClient_getSessionId == sessionId

(***************************************************************************)
(* Audio buffers: base64 on the way out, and back in the AudioPlayer        *)
(* (src/unnamed/part_007 632-639, simple-realtime-client.ts 105-120,        *)
(* src/app/lib/utils/audio.ts 194-204)                                      *)
(***************************************************************************)

\* longest buffer followed through the encoder and the decoder
MaxBytes == 4

\* byte values a Uint8Array element is drawn from
ByteSamples == {0, 1, 77, 128, 250, 255}

AudioBuffers == UNION {[1..n -> ByteSamples] : n \in 0..MaxBytes}

NoAudio == [stage |-> "idle", buf |-> <<>>, b64 |-> <<>>, out |-> <<>>]

\* `String.fromCharCode(c)`: the UTF-16 code unit
String_fromCharCode(c) == c % 65536

\* btoa() writes '=' where a group has no byte left; a base64 character is
\* written here as its 6-bit value, '=' as the value after them
Base64Pad == 64

\* btoa(binary): three code units below 256 become four 6-bit values
RECURSIVE btoa(_)
btoa(s) ==
    IF Len(s) = 0 THEN <<>>
    ELSE IF Len(s) = 1
    THEN <<s[1] \div 4, (s[1] % 4) * 16, Base64Pad, Base64Pad>>
    ELSE IF Len(s) = 2
    THEN <<s[1] \div 4, (s[1] % 4) * 16 + s[2] \div 16, (s[2] % 16) * 4,
           Base64Pad>>
    ELSE <<s[1] \div 4, (s[1] % 4) * 16 + s[2] \div 16,
           (s[2] % 16) * 4 + s[3] \div 64, s[3] % 64>>
         \o btoa(SubSeq(s, 4, Len(s)))

\* atob(base64): four 6-bit values become up to three code units
RECURSIVE atob(_)
atob(e) ==
    IF Len(e) < 4 THEN <<>>
    ELSE LET c1 == e[1] * 4 + e[2] \div 16
             c2 == (e[2] % 16) * 16 + e[3] \div 4
             c3 == (e[3] % 4) * 64 + e[4]
         IN  (IF e[3] = Base64Pad THEN <<c1>>
              ELSE IF e[4] = Base64Pad THEN <<c1, c2>>
              ELSE <<c1, c2, c3>>)
             \o atob(SubSeq(e, 5, Len(e)))

\* an encoder whose loop stops one byte early
RealtimeClient_arrayBufferToBase64_shortLoop(buffer) ==
    btoa([i \in 1..(IF Len(buffer) = 0 THEN 0 ELSE Len(buffer) - 1)
             |-> String_fromCharCode(buffer[i])])

\* arrayBufferToBase64(buffer): `binary += String.fromCharCode(bytes[i])` for
\* every byte, then `btoa(binary)`
RealtimeClient_arrayBufferToBase64(buffer) ==
    btoa([i \in 1..Len(buffer) |-> String_fromCharCode(buffer[i])])

\* sendAudio(audio): the same loop and btoa() written out in the method
SimpleRealtimeClient_sendAudio_base64(buffer) ==
    btoa([i \in 1..Len(buffer) |-> String_fromCharCode(buffer[i])])

\* playBase64Audio(base64Audio): `atob`, then `bytes[i] =
\* binaryString.charCodeAt(i)` into a Uint8Array of the string's length
AudioPlayer_playBase64Audio_bytes(base64Audio) ==
    LET binaryString == atob(base64Audio)
    IN  [i \in 1..Len(binaryString) |-> binaryString[i] % 256]

\* appendInputAudio(audioData) encodes the buffer
RealtimeClient_appendInputAudio_encode ==
    /\ variant \in {"browser", "webrtc"}
    /\ audio.stage = "input"
    /\ audio' = [audio EXCEPT !.stage = "encoded",
                              !.b64 = RealtimeClient_arrayBufferToBase64(audio.buf)]
    /\ UNCHANGED <<main, demux, eventHandlers, dispatch, created, hook, player>>

\* sendAudio(audio) encodes the buffer
SimpleRealtimeClient_sendAudio_encode ==
    /\ variant \in {"simple", "exact"}
    /\ audio.stage = "input"
    /\ audio' = [audio EXCEPT !.stage = "encoded",
                              !.b64 = SimpleRealtimeClient_sendAudio_base64(audio.buf)]
    /\ UNCHANGED <<main, demux, eventHandlers, dispatch, created, hook, player>>

\* playBase64Audio(base64Audio) decodes what an encoder produced
AudioPlayer_playBase64Audio ==
    /\ audio.stage = "encoded"
    /\ audio' = [audio EXCEPT !.stage = "decoded",
                              !.out = AudioPlayer_playBase64Audio_bytes(audio.b64)]
    /\ UNCHANGED <<main, demux, eventHandlers, dispatch, created, hook, player>>

(***************************************************************************)
(* The event switch of each client applied to one frame                     *)
(* (src/app/lib/openai/realtime.ts 123-189, src/unnamed/part_007 425-547,   *)
(* src/unnamed/part_003 199-313)                                            *)
(***************************************************************************)

\* the case labels of the three switches, and a type none of them knows
DemuxTypes ==
    {"error", "session.created", "session.updated", "conversation.created",
     "conversation.item.created", "conversation.item.truncated",
     "conversation.item.deleted",
     "conversation.item.input_audio_transcription.completed",
     "conversation.item.input_audio_transcription.failed",
     "input_audio_buffer.committed", "input_audio_buffer.cleared",
     "input_audio_buffer.speech_started", "input_audio_buffer.speech_stopped",
     "response.created", "response.done", "response.output_item.added",
     "response.output_item.done", "response.content_part.added",
     "response.content_part.done", "response.text.delta", "response.text.done",
     "response.audio_transcript.delta", "response.audio_transcript.done",
     "response.audio.delta", "response.audio.done",
     "response.function_call_arguments.delta",
     "response.function_call_arguments.done", "rate_limits.updated",
     "vendor.unknown"}

\* a parsed frame with a type, as the switch sees it; role is item.role,
\* "none" when the frame has no item or the item no role
DemuxFrames ==
    {[ok |-> TRUE, type |-> ty, err |-> e, sid |-> "", role |-> ro] :
        ty \in DemuxTypes, e \in {"", "invalid_api_key"},
        ro \in {"user", "assistant", "system", "none"}}

NoDemux == [stage |-> "idle", frame |-> Frame(TRUE, "", "", ""), by |-> "",
            out |-> NoEmit]

\* realtime.ts handleEvent: the name of the emit() call of each case
RealtimeTs_emitName(type) ==
    CASE type = "input_audio_buffer.speech_started" -> "speech.started"
      [] type = "input_audio_buffer.speech_stopped" -> "speech.stopped"
      [] type = "conversation.item.input_audio_transcription.completed"
            -> "transcription.completed"
      [] type = "response.audio_transcript.delta" -> "response.text.delta"
      [] type = "response.audio_transcript.done" -> "response.text.done"
      [] OTHER -> type

\* realtime.ts handleEvent(event): the emit() calls made for one frame.  The
\* case 'conversation.item.created' emits 'user.message' or
\* 'assistant.message' by item.role and has no else branch.
RealtimeTs_handleEvent(f) ==
    LET \* what each case passes to emit()
        emitPayload(type) ==
            CASE type \in {"input_audio_buffer.speech_started",
                           "input_audio_buffer.speech_stopped", "response.audio.done"}
                    -> "none"
              [] type \in {"conversation.item.input_audio_transcription.completed",
                           "response.audio_transcript.done"} -> "transcript"
              [] type \in {"response.audio_transcript.delta", "response.audio.delta"}
                    -> "delta"
              [] type = "error" -> "error"
              [] OTHER -> "frame"
    IN
    IF f.type = "conversation.item.created"
    THEN IF f.role = "user" THEN <<Ev("user.message", "item", "", 0, "")>>
         ELSE IF f.role = "assistant"
         THEN <<Ev("assistant.message", "item", "", 0, "")>>
         ELSE NoEmit
    ELSE <<Ev(RealtimeTs_emitName(f.type), emitPayload(f.type), "", 0,
              IF f.type = "error" THEN f.err ELSE "")>>

\* RealtimeBrowserClient.handleMessage(data) on the frame
RealtimeBrowserClient_handleMessage ==
    /\ demux.stage = "frame"
    /\ demux' = [demux EXCEPT !.stage = "done", !.by = "browser",
                              !.out = RealtimeBrowserClient_emissions(demux.frame)]
    /\ UNCHANGED <<main, audio, eventHandlers, dispatch, created, hook, player>>

\* RealtimeClient.handleServerEvent(event) of the peer-connection client
RealtimeClient_handleServerEvent ==
    /\ demux.stage = "frame"
    /\ demux' = [demux EXCEPT !.stage = "done", !.by = "webrtc",
                              !.out = RealtimeClient_emissions(demux.frame)]
    /\ UNCHANGED <<main, audio, eventHandlers, dispatch, created, hook, player>>

\* RealtimeClient.handleEvent(event) of realtime.ts
RealtimeTs_handleEventCall ==
    /\ demux.stage = "frame"
    /\ demux' = [demux EXCEPT !.stage = "done", !.by = "realtime.ts",
                              !.out = RealtimeTs_handleEvent(demux.frame)]
    /\ UNCHANGED <<main, audio, eventHandlers, dispatch, created, hook, player>>

(***************************************************************************)
(* The clients' own subscriber registry: on, off, emit                      *)
(* (src/app/lib/openai/simple-realtime-client.ts 65-87,                     *)
(* src/unnamed/part_001 62-84, src/unnamed/part_007 28-47 and 68-70)        *)
(***************************************************************************)

\* most handlers registered for the event name
MaxHandlers == 3

Handlers == {"h1", "h2", "h3"}

NoDispatch == [phase |-> "idle", k |-> 0, len |-> 0, atStart |-> <<>>,
               invoked |-> <<>>]

\* off(): `const index = handlers.indexOf(handler); if (index > -1)
\* handlers.splice(index, 1)`; index is counted from 1 here, 0 when absent
Spliced(list, h) ==
    LET index == IF \E i \in 1..Len(list) : list[i] = h
                 THEN CHOOSE i \in 1..Len(list) :
                         list[i] = h /\ \A j \in 1..(i - 1) : list[j] # h
                 ELSE 0
    IN  IF index = 0 THEN list
        ELSE SubSeq(list, 1, index - 1) \o SubSeq(list, index + 1, Len(list))

\* SimpleRealtimeClient.on(event, handler): push onto the event's array
\* (ProxyRealtimeClient.on is the same code)
SimpleRealtimeClient_on(h) ==
    /\ variant = "simple"
    /\ h \in Handlers /\ dispatch.phase # "forEach"
    /\ Len(eventHandlers) < MaxHandlers
    /\ eventHandlers' = Append(eventHandlers, h)
    /\ dispatch' = NoDispatch
    /\ UNCHANGED <<main, audio, demux, created, hook, player>>

\* ExactRealtimeClient.on(event, handler): `this.eventHandlers.set(event,
\* handler)` on a Map from event name to one handler (RealtimeWebRTCClient.on
\* is the same code)
ExactRealtimeClient_on(h) ==
    /\ variant = "exact"
    /\ h \in Handlers
    /\ eventHandlers' = <<h>>
    /\ dispatch' = NoDispatch
    /\ UNCHANGED <<main, audio, demux, created, hook, player>>

\* SimpleRealtimeClient.off(event, handler), called outside a dispatch
SimpleRealtimeClient_off(h) ==
    /\ variant = "simple"
    /\ h \in Handlers /\ dispatch.phase # "forEach"
    /\ eventHandlers' = Spliced(eventHandlers, h)
    /\ dispatch' = NoDispatch
    /\ UNCHANGED <<main, audio, demux, created, hook, player>>

\* SimpleRealtimeClient.emit(event, data) reaches `handlers.forEach(...)`:
\* forEach reads the length once and then visits the indices below it
SimpleRealtimeClient_emit ==
    /\ variant = "simple"
    /\ dispatch.phase # "forEach"
    /\ dispatch' = [phase |-> "forEach", k |-> 1, len |-> Len(eventHandlers),
                    atStart |-> eventHandlers, invoked |-> <<>>]
    /\ UNCHANGED <<main, audio, demux, created, hook, player, eventHandlers>>

\* One visit of the forEach: index k is skipped when the array has become
\* shorter than k; otherwise handlers[k] is called, and the handler may call
\* off(event, x) on the array being iterated (x = "none": it does not).
SimpleRealtimeClient_forEachVisit(x) ==
    /\ variant = "simple"
    /\ dispatch.phase = "forEach" /\ dispatch.k <= dispatch.len
    /\ x \in Handlers \cup {"none"}
    /\ IF dispatch.k <= Len(eventHandlers)
       THEN /\ dispatch' = [dispatch EXCEPT
                               !.k = @ + 1,
                               !.invoked = Append(@, eventHandlers[dispatch.k])]
            /\ eventHandlers' = IF x = "none" THEN eventHandlers
                                ELSE Spliced(eventHandlers, x)
       ELSE /\ x = "none"
            /\ dispatch' = [dispatch EXCEPT !.k = @ + 1]
            /\ UNCHANGED eventHandlers
    /\ UNCHANGED <<main, audio, demux, created, hook, player>>

\* the forEach has visited every index: emit() returns
SimpleRealtimeClient_emitReturns ==
    /\ variant = "simple"
    /\ dispatch.phase = "forEach" /\ dispatch.k > dispatch.len
    /\ dispatch' = [dispatch EXCEPT !.phase = "done"]
    /\ UNCHANGED <<main, audio, demux, created, hook, player, eventHandlers>>

(***************************************************************************)
(* RealtimeClient.createResponse(options) (src/unnamed/part_007 593-624)    *)
(*                                                                         *)
(* Option values are written as the JavaScript source text of the value;   *)
(* "undefined" is an option that is not supplied.                           *)
(***************************************************************************)

ResponseFields ==
    {"modalities", "instructions", "voice", "outputAudioFormat",
     "temperature", "maxOutputTokens"}

\* the options followed, with the values followed for each option
ResponseOptions ==
    LET OptionValues(field) ==
          CASE field = "modalities"        -> {"undefined", "[]", "['text']"}
            [] field = "instructions"      -> {"undefined", "''", "'Be brief.'"}
            [] field = "voice"             -> {"undefined", "'alloy'"}
            [] field = "outputAudioFormat" -> {"undefined", "'pcm16'"}
            [] field = "temperature"       -> {"undefined", "0", "0.8"}
            [] field = "maxOutputTokens"   -> {"undefined", "0", "100", "'inf'"}
    IN  {o \in [ResponseFields -> {"undefined", "[]", "['text']", "''",
                                   "'Be brief.'", "'alloy'", "'pcm16'", "0",
                                   "0.8", "100", "'inf'"}] :
            \A field \in ResponseFields : o[field] \in OptionValues(field)}

NoResponse ==
    LET none == [field \in ResponseFields |-> "undefined"]
    IN  [stage |-> "idle", options |-> none, hasResponse |-> FALSE,
         response |-> none]

\* JavaScript truthiness, as the `||` chain of createResponse tests it:
\* undefined, 0 and the empty string are falsy; an array, even an empty one,
\* is truthy
RealtimeClient_createResponse_truthy(v) == v \notin {"undefined", "0", "''"}

\* createResponse(options) on an open data channel: the frame handed to
\* sendEvent. JSON.stringify leaves out the members that are undefined.
RealtimeClient_createResponse ==
    /\ created.stage = "options"
    /\ created' =
         IF \E field \in ResponseFields :
               RealtimeClient_createResponse_truthy(created.options[field])
         THEN [created EXCEPT !.stage = "sent", !.hasResponse = TRUE,
                              !.response = created.options]
         ELSE [created EXCEPT !.stage = "sent"]
    /\ UNCHANGED <<main, audio, demux, eventHandlers, dispatch, hook, player>>

(***************************************************************************)
(* The useRealtimeAPI hook (src/app/lib/hooks/useRealtimeAPI.ts): the       *)
(* clients its connect() creates and the one clientRef.current names        *)
(***************************************************************************)

\* most clients one mounted hook is followed creating
MaxClients == 3

\* clientRef.current = null is ref = 0; a client is "none" until created
NoHook == [mounted |-> TRUE, ref |-> 0,
           clients |-> [c \in 1..MaxClients |-> "none"], lastCall |-> "none"]

\* connect() up to its `await client.connect()`: returns early when
\* `clientRef.current?.getConnectionStatus()`, else creates a client,
\* registers the handlers and starts connecting; clientRef is not written
\* yet.
useRealtimeAPI_connect ==
    /\ hook.mounted
    /\ IF hook.ref # 0 /\ hook.clients[hook.ref] = "connected"
       THEN hook' = [hook EXCEPT !.lastCall = "connect"]
       ELSE \E c \in 1..MaxClients :
               /\ hook.clients[c] = "none"
               /\ \A d \in 1..MaxClients : d < c => hook.clients[d] # "none"
               /\ hook' = [hook EXCEPT !.clients[c] = "connecting",
                                       !.lastCall = "connect"]
    /\ UNCHANGED <<main, audio, demux, eventHandlers, dispatch, created, player>>

\* client.connect() resolves (the client is now connected) and connect()
\* continues after the await: `clientRef.current = client`
useRealtimeAPI_connectResolves(c) ==
    /\ hook.clients[c] = "connecting"
    /\ hook' = [hook EXCEPT !.clients[c] = "connected", !.ref = c]
    /\ UNCHANGED <<main, audio, demux, eventHandlers, dispatch, created, player>>

\* client.connect() rejects: the catch block reports and rethrows
useRealtimeAPI_connectRejects(c) ==
    /\ hook.clients[c] = "connecting"
    /\ hook' = [hook EXCEPT !.clients[c] = "failed"]
    /\ UNCHANGED <<main, audio, demux, eventHandlers, dispatch, created, player>>

\* what disconnect() does to the hook's state
useRealtimeAPI_disconnected ==
    IF hook.ref # 0
    THEN [hook EXCEPT !.clients[hook.ref] = "closed", !.ref = 0,
                      !.lastCall = "disconnect"]
    ELSE [hook EXCEPT !.lastCall = "disconnect"]

\* disconnect(): `if (clientRef.current) { clientRef.current.disconnect();
\* clientRef.current = null; ... }`
useRealtimeAPI_disconnect ==
    /\ hook.mounted
    /\ hook' = useRealtimeAPI_disconnected
    /\ UNCHANGED <<main, audio, demux, eventHandlers, dispatch, created, player>>

\* the unmount effect's cleanup: `return () => { disconnect(); }`
useRealtimeAPI_unmount ==
    /\ hook.mounted
    /\ hook' = [useRealtimeAPI_disconnected EXCEPT !.mounted = FALSE]
    /\ UNCHANGED <<main, audio, demux, eventHandlers, dispatch, created, player>>

(***************************************************************************)
(* AudioPlayer (src/app/lib/utils/audio.ts 145-218): the decoded buffers    *)
(* waiting in audioQueue and the buffer sources that were started           *)
(*                                                                         *)
(* Buffers are interchangeable, so the player is followed by counts:        *)
(*   decoding  calls of playAudioData waiting on decodeAudioData            *)
(*   queue     audioQueue.length                                            *)
(*   sources   sources started on the current AudioContext, not yet ended   *)
(*   closed    sources started on an AudioContext that stop() has closed,   *)
(*             not yet ended                                                *)
(***************************************************************************)

\* most buffers handed to one player and not yet played to their end
MaxBuffers == 4

NoPlayer == [decoding |-> 0, queue |-> 0, isPlaying |-> FALSE,
             sources |-> 0, closed |-> 0]

\* processQueue(): with an empty queue isPlaying becomes false; otherwise
\* isPlaying becomes true, the first buffer is shifted off the queue and a
\* source for it is started on the current context
AudioPlayer_processQueue(p) ==
    IF p.queue = 0
    THEN [p EXCEPT !.isPlaying = FALSE]
    ELSE [p EXCEPT !.isPlaying = TRUE, !.queue = @ - 1, !.sources = @ + 1]

\* playAudioData(audioData) up to `await decodeAudioData(audioData)`, while
\* the player holds fewer than MaxBuffers buffers in some form
AudioPlayer_playAudioData ==
    /\ player.decoding + player.queue + player.sources + player.closed
          < MaxBuffers
    /\ player' = [player EXCEPT !.decoding = @ + 1]
    /\ UNCHANGED <<main, audio, demux, eventHandlers, dispatch, created, hook>>

\* decodeAudioData resolves: the buffer is pushed, and processQueue() is
\* called when isPlaying is false
AudioPlayer_decoded ==
    /\ player.decoding > 0
    /\ player' =
         IF player.isPlaying
         THEN [player EXCEPT !.decoding = @ - 1, !.queue = @ + 1]
         ELSE AudioPlayer_processQueue(
                  [player EXCEPT !.decoding = @ - 1, !.queue = @ + 1])
    /\ UNCHANGED <<main, audio, demux, eventHandlers, dispatch, created, hook>>

\* decodeAudioData rejects: the catch block logs and rethrows
AudioPlayer_decodeFails ==
    /\ player.decoding > 0
    /\ player' = [player EXCEPT !.decoding = @ - 1]
    /\ UNCHANGED <<main, audio, demux, eventHandlers, dispatch, created, hook>>

\* a source of the current context plays to its end: `source.onended`
\* calls processQueue()
AudioPlayer_onended ==
    /\ player.sources > 0
    /\ player' = AudioPlayer_processQueue([player EXCEPT !.sources = @ - 1])
    /\ UNCHANGED <<main, audio, demux, eventHandlers, dispatch, created, hook>>

\* stop(): the queue is emptied, isPlaying becomes false, the context is
\* closed and replaced; the sources it had started are neither stopped nor
\* detached from their onended handler
AudioPlayer_stop ==
    /\ player' = [player EXCEPT !.queue = 0, !.isPlaying = FALSE,
                                !.closed = @ + player.sources,
                                !.sources = 0]
    /\ UNCHANGED <<main, audio, demux, eventHandlers, dispatch, created, hook>>

\* A source of a closed context reaches its end before the close has taken
\* effect: its onended handler still calls processQueue().
AudioPlayer_onendedAfterClose ==
    /\ player.closed > 0
    /\ player' = AudioPlayer_processQueue([player EXCEPT !.closed = @ - 1])
    /\ UNCHANGED <<main, audio, demux, eventHandlers, dispatch, created, hook>>

\* The close takes effect first: the source is released with its context
\* and no ended event is delivered.
AudioPlayer_sourceReleased ==
    /\ player.closed > 0
    /\ player' = [player EXCEPT !.closed = @ - 1]
    /\ UNCHANGED <<main, audio, demux, eventHandlers, dispatch, created, hook>>

(***************************************************************************)
(* The transport's own steps and the subscribers                           *)
(***************************************************************************)

\* The peer starts the closing handshake: readyState becomes CLOSING in a
\* task of its own, before the task that fires the close event.
ServerStartsClose(t) ==
    /\ t \in Targets /\ t.r.rs = "OPEN"
    /\ LET T == Put(Transports, t, [t.r EXCEPT !.rs = "CLOSING", !.srv = TRUE])
       IN  ws' = T.ws /\ detached' = T.det
    /\ Quiet /\ ret' = "none"
    /\ UNCHANGED <<fixed, rtc, isConnected, sessionId, reconnectTimer, timers,
                   reconnectAttempts, errorListener, scheduledSinceOpen,
                   userStopped>>

\* on('error', h) when there is no listener, off('error', h) of the only one
ToggleErrorListener ==
    /\ errorListener' = ~errorListener
    /\ Quiet /\ ret' = "returned"
    /\ UNCHANGED <<fixed, rtc, client, scheduledSinceOpen, userStopped>>

\* ---- the order of inbound frames on one connection -----------------------
\* frames followed through the transport's queue
OrderFrames ==
    { f \in Frames :
        \/ ~f.ok
        \/ f.type \in {"vendor.unknown", "response.text.delta"}
        \/ f.sid = "sess_abc"
        \/ f.err \in {"rate_limit_exceeded", "invalid_api_key"} }

\* The peer's next frame arrives on this.ws and waits for its message event.
TransportReceives(f) ==
    /\ ws.rs = "OPEN"
    /\ arrived < MaxFrames
    /\ arrived' = arrived + 1
    /\ inbox' = Append(inbox, [no |-> arrived + 1, frame |-> f])
    /\ heard' = heard
    /\ Quiet /\ ret' = "none"
    /\ UNCHANGED <<variant, apart, lastSignal, client, rtc, errorListener, scheduledSinceOpen,
                   userStopped>>

\* q without its i-th element
Without(q, i) == SubSeq(q, 1, i - 1) \o SubSeq(q, i + 1, Len(q))

\* The frames whose message event may be the next one: a WebSocket delivers
\* in the order sent, a data channel does so when it was created ordered.
MessageEvent_choices(q) ==
    IF variant # "webrtc" \/ RealtimeClient_dcOrdered THEN {1} ELSE 1..Len(q)

\* The message event of a waiting frame, handled to completion by the
\* client's handler (`JSON.parse(event.data)`, then the emit() calls, each of
\* which calls the subscribers before it returns).
MessageEvent(t) ==
    /\ t.own /\ inbox # <<>>
    /\ \E i \in MessageEvent_choices(inbox) :
         /\ \/ RealtimeBrowserClient_onmessage(t, inbox[i].frame)
            \/ ExactRealtimeClient_onmessage(t, inbox[i].frame)
            \/ RealtimeClient_dcMessage(t, inbox[i].frame)
            \/ SimpleRealtimeClient_onmessage(t, inbox[i].frame)
         /\ heard' = heard \o [k \in 1..Len(emitted') |->
                                  <<inbox[i].no, emitted'[k].name>>]
         /\ inbox' = Without(inbox, i)
    /\ arrived' = arrived

\* every field of a client as its constructor leaves it
Constructed ==
    /\ variant \in Variants
    /\ ws = NullSock
    /\ detached = [k \in LiveKinds |-> 0]
    /\ isConnected = FALSE
    /\ sessionId = "null"
    /\ reconnectTimer = "null"
    /\ timers = 0
    /\ reconnectAttempts = 0
    /\ pc = "null"
    /\ awaitingMedia = 0
    /\ pingInterval = "null"
    /\ pings = 0
    /\ conversationId = "null"
    /\ errorListener = FALSE
    /\ emitted = NoEmit
    /\ scheduledDelay = 0
    /\ lastWrite = "none"
    /\ wrote = "none"
    /\ ret = "none"
    /\ uncaught = FALSE
    /\ settle = "none"
    /\ scheduledSinceOpen = 0
    /\ userStopped = FALSE
    /\ inbox = <<>>
    /\ arrived = 0
    /\ heard = <<>>

\* no component is followed on its own
Apart ==
    /\ audio = NoAudio /\ demux = NoDemux
    /\ eventHandlers = <<>> /\ dispatch = NoDispatch
    /\ created = NoResponse /\ hook = NoHook /\ player = NoPlayer

\* as Apart, but the one component named is as given
ApartWith(component, given) ==
    /\ audio = (IF component = "audio" THEN given ELSE NoAudio)
    /\ demux = (IF component = "demux" THEN given ELSE NoDemux)
    /\ eventHandlers = <<>> /\ dispatch = NoDispatch
    /\ created = (IF component = "created" THEN given ELSE NoResponse)
    /\ hook = NoHook /\ player = NoPlayer

Init == Constructed /\ Apart /\ lastSignal = "off"

Next ==
    \/ RealtimeBrowserClient_connect
    \/ RealtimeBrowserClient_disconnect
    \/ \E b \in BOOLEAN : RealtimeBrowserClient_reconnectTimerFires(b)
    \/ \E t \in Targets : RealtimeBrowserClient_onopen(t)
    \/ \E t \in Targets, f \in Frames :
          RealtimeBrowserClient_onmessage(t, f) /\ UNCHANGED order
    \/ \E t \in Targets, o \in ServerCloseFrames \cup {Abnormal} :
          RealtimeBrowserClient_onclose(t, o)
    \/ \E c \in Commands : RealtimeBrowserClient_send(c)
    \/ ExactRealtimeClient_connect
    \/ ExactRealtimeClient_disconnect
    \/ \E t \in Targets : ExactRealtimeClient_onopen(t)
    \/ \E t \in Targets, f \in Frames :
          ExactRealtimeClient_onmessage(t, f) /\ UNCHANGED order
    \/ \E t \in Targets, o \in ServerCloseFrames \cup {Abnormal} :
          ExactRealtimeClient_onclose(t, o)
    \/ \E c \in Commands : ExactRealtimeClient_send(c)
    \/ RealtimeClient_connect
    \/ RealtimeClient_disconnect
    \/ \E ok \in BOOLEAN : RealtimeClient_mediaSettles(ok)
    \/ \E t \in Targets, ok \in BOOLEAN : RealtimeClient_sdpSettles(t, ok)
    \/ \E t \in Targets : RealtimeClient_dcOpen(t)
    \/ \E t \in Targets, f \in Frames :
          RealtimeClient_dcMessage(t, f) /\ UNCHANGED order
    \/ \E t \in Targets : RealtimeClient_dcError(t)
    \/ \E t \in Targets : RealtimeClient_dcClose(t)
    \/ \E c \in RealtimeClient_Commands : RealtimeClient_sendEvent(c)
    \/ RealtimeClient_pingTick
    \/ SimpleRealtimeClient_connect
    \/ SimpleRealtimeClient_disconnect
    \/ \E t \in Targets : SimpleRealtimeClient_onopen(t)
    \/ \E t \in Targets, f \in Frames :
          SimpleRealtimeClient_onmessage(t, f) /\ UNCHANGED order
    \/ \E t \in Targets, o \in ServerCloseFrames \cup {Abnormal} :
          SimpleRealtimeClient_onclose(t, o)
    \/ \E c \in Commands : SimpleRealtimeClient_send(c)
    \/ \E t \in Targets : ServerStartsClose(t)
    \/ ToggleErrorListener

Spec == Init /\ [][Next]_vars

\* One connection that has just opened, and then only inbound frames, their
\* message events and the commands subscribers issue from their handlers.
InitOrder ==
    /\ variant \in Variants
    /\ ws = Sock("OPEN", TRUE, "none", FALSE)
    /\ detached = [k \in LiveKinds |-> 0]
    /\ isConnected = TRUE
    /\ sessionId = "null"
    /\ reconnectTimer = "null"
    /\ timers = 0
    /\ reconnectAttempts = 0
    /\ pc = IF variant = "webrtc" THEN "set" ELSE "null"
    /\ awaitingMedia = 0
    /\ pingInterval = IF variant = "webrtc" THEN "set" ELSE "null"
    /\ pings = IF variant = "webrtc" THEN 1 ELSE 0
    /\ conversationId = "null"
    /\ errorListener \in BOOLEAN
    /\ emitted = NoEmit
    /\ scheduledDelay = 0
    /\ lastWrite = "none"
    /\ wrote = "none"
    /\ ret = "returned"
    /\ uncaught = FALSE
    /\ settle = "none"
    /\ scheduledSinceOpen = 0
    /\ userStopped = FALSE
    /\ inbox = <<>>
    /\ arrived = 0
    /\ heard = <<>>
    /\ Apart
    /\ lastSignal = "off"

NextOrder ==
    \/ \E f \in OrderFrames : TransportReceives(f)
    \/ \E t \in Targets : MessageEvent(t)
    \/ \E c \in Commands : RealtimeBrowserClient_send(c)
    \/ \E c \in Commands : ExactRealtimeClient_send(c)
    \/ \E c \in RealtimeClient_Commands : RealtimeClient_sendEvent(c)
    \/ \E c \in Commands : SimpleRealtimeClient_send(c)

SpecOrder == InitOrder /\ [][NextOrder]_vars

TypeOK ==
    /\ variant \in Variants
    /\ ws \in LiveKinds \cup {NullSock, ClosedSock}
    /\ detached \in [LiveKinds -> 0..MaxSockets]
    /\ LiveCount(Transports) <= MaxSockets
    /\ isConnected \in BOOLEAN
    /\ sessionId \in {"null", "undefined", "", "sess_abc"}
    /\ reconnectTimer \in {"null", "pending", "fired"}
    /\ timers \in 0..MaxTimers
    /\ reconnectTimer = "pending" => timers > 0
    /\ reconnectAttempts \in 0..maxReconnectAttempts
    /\ errorListener \in BOOLEAN
    /\ uncaught \in BOOLEAN
    /\ wrote \in RealtimeClient_Commands \cup {"none", "ping"}
    /\ settle \in {"none", "resolved", "rejected"}
    /\ userStopped \in BOOLEAN
    /\ pc \in {"null", "set"}
    /\ awaitingMedia \in 0..MaxSockets
    /\ pingInterval \in {"null", "set"}
    /\ pings \in 0..MaxTimers
    /\ pingInterval = "set" => pings > 0
    /\ arrived \in 0..MaxFrames
    /\ Len(inbox) <= arrived
    /\ audio.stage \in {"idle", "input", "encoded", "decoded"}
    /\ lastSignal \in {"off", "none", "connected", "disconnected"}
    /\ \A i \in 1..Len(heard) : heard[i][1] \in 1..arrived

\* ---- the base64 round trip of one buffer ---------------------------------
InitBase64 ==
    /\ Constructed /\ lastSignal = "off"
    /\ \E b \in AudioBuffers :
          ApartWith("audio", [NoAudio EXCEPT !.stage = "input", !.buf = b])

SpecBase64 ==
    /\ InitBase64
    /\ [][\/ RealtimeClient_appendInputAudio_encode
          \/ SimpleRealtimeClient_sendAudio_encode
          \/ AudioPlayer_playBase64Audio]_vars

\* ---- the connection signals as the subscribers see them -------------------
InitSignals == Constructed /\ Apart /\ lastSignal = "none"

SpecSignals == InitSignals /\ [][Next]_vars

\* ---- one frame through the event switch of each client -------------------
InitDemux ==
    /\ Constructed /\ lastSignal = "off"
    /\ \E f \in DemuxFrames :
          ApartWith("demux", [NoDemux EXCEPT !.stage = "frame", !.frame = f])

SpecDemux ==
    /\ InitDemux
    /\ [][\/ RealtimeBrowserClient_handleMessage
          \/ RealtimeClient_handleServerEvent
          \/ RealtimeTs_handleEventCall]_vars

\* ---- the subscriber registry of one event name ---------------------------
SpecRegistry ==
    /\ Init
    /\ [][\/ \E h \in Handlers : SimpleRealtimeClient_on(h)
          \/ \E h \in Handlers : ExactRealtimeClient_on(h)
          \/ \E h \in Handlers : SimpleRealtimeClient_off(h)
          \/ SimpleRealtimeClient_emit
          \/ \E x \in Handlers \cup {"none"} :
                SimpleRealtimeClient_forEachVisit(x)
          \/ SimpleRealtimeClient_emitReturns]_vars

\* ---- createResponse on one set of options --------------------------------
InitResponse ==
    /\ Constructed /\ variant = "webrtc" /\ lastSignal = "off"
    /\ \E o \in ResponseOptions :
          ApartWith("created",
                    [NoResponse EXCEPT !.stage = "options", !.options = o])

SpecResponse == InitResponse /\ [][RealtimeClient_createResponse]_vars

\* ---- one mounted useRealtimeAPI hook -------------------------------------
SpecHook ==
    /\ Init
    /\ [][\/ useRealtimeAPI_connect
          \/ \E c \in 1..MaxClients : useRealtimeAPI_connectResolves(c)
          \/ \E c \in 1..MaxClients : useRealtimeAPI_connectRejects(c)
          \/ useRealtimeAPI_disconnect
          \/ useRealtimeAPI_unmount]_vars

\* ---- one AudioPlayer -----------------------------------------------------
SpecPlayer ==
    /\ Init
    /\ [][\/ AudioPlayer_playAudioData
          \/ AudioPlayer_decoded
          \/ AudioPlayer_decodeFails
          \/ AudioPlayer_onended
          \/ AudioPlayer_stop
          \/ AudioPlayer_onendedAfterClose
          \/ AudioPlayer_sourceReleased]_vars

(***************************************************************************)
(* Properties                                                              *)
(***************************************************************************)

CloseEvents == ServerCloseFrames \cup {Abnormal}

EmittedEv(name, type) ==
    \E i \in 1..Len(emitted) : emitted[i].name = name /\ emitted[i].type = type

\* a command method of the client under analysis is called
CommandCall ==
    \E c \in RealtimeClient_Commands :
        \/ RealtimeBrowserClient_send(c)
        \/ ExactRealtimeClient_send(c)
        \/ RealtimeClient_sendEvent(c)
        \/ SimpleRealtimeClient_send(c)

\* C1: the transport's send() is called only on a transport whose readyState
\* is open, whichever client and whichever sender (command method, auth
\* message on open, ping tick) makes the call.
C1_WritesOnlyWhileOpen == lastWrite \in {"none", "OPEN"}

\* C2: a command method called while the transport is not open reports the
\* error to its caller (it throws), writes nothing and leaves the connection
\* state as it was.
C2_CommandWhileNotOpenIsReported ==
    [][(CommandCall /\ ws.rs # "OPEN")
          => (ret' = "threw" /\ lastWrite' = "none" /\ isConnected' = isConnected
              /\ ws' = ws)]_vars

\* C3: an inbound error frame with code invalid_api_key makes the client emit
\* the authentication error and become disconnected, and the close of a
\* transport torn down for that reason never schedules a reconnection,
\* whatever close code is reported.
C3_AuthErrorFrameIsTerminal ==
    [][\A t \in Targets :
          /\ RealtimeBrowserClient_onmessage(t, Frame(TRUE, "error", "invalid_api_key", ""))
                => (EmittedEv("error", "authentication_error")' /\ ~isConnected'
                    /\ ws'.rs = "NULL")
          /\ \A o \in CloseEvents :
                (RealtimeBrowserClient_onclose(t, o) /\ t.r.closedBy = "auth")
                    => (scheduledDelay' = 0 /\ timers' = timers)]_vars

\* C4: a close event with code 1008, or with a reason containing 'auth', makes
\* the client emit the authentication error, leaves it disconnected and
\* schedules no reconnection, whatever the reconnect-attempt count is.
C4_AuthCloseIsNotRetried ==
    [][\A t \in Targets, o \in CloseEvents :
          (RealtimeBrowserClient_onclose(t, o) /\ (o[1] = 1008 \/ o[2]))
              => /\ EmittedEv("error", "authentication_error")'
                 /\ ~isConnected'
                 /\ scheduledDelay' = 0
                 /\ timers' = timers
                 /\ reconnectTimer' = reconnectTimer
                 /\ reconnectAttempts' = reconnectAttempts]_vars

C4_Witness ==
    /\ variant = "browser"
    /\ \E i \in 1..Len(emitted) :
          emitted[i].type = "authentication_error" /\ emitted[i].code = 1011
    /\ reconnectAttempts \in 1..(maxReconnectAttempts - 1)
    /\ ~isConnected /\ scheduledDelay = 0

\* C5: the close of a transport that never reached the open state (a failed
\* first connect()) schedules no reconnection.
C5_NoRetryOfFailedFirstConnect ==
    [][\A t \in Targets, o \in CloseEvents :
          (RealtimeBrowserClient_onclose(t, o) /\ ~t.r.opened)
              => (scheduledDelay' = 0 /\ timers' = timers)]_vars

\* C6: a close event schedules a reconnection only when its code is not 1000
\* and the client did not call close() on that transport.
C6_ReconnectOnlyOnForeignAbnormalClose ==
    [][\A t \in Targets, o \in CloseEvents :
          (RealtimeBrowserClient_onclose(t, o) /\ scheduledDelay' # 0)
              => (o[1] # 1000 /\ t.r.closedBy = "none")]_vars

\* C7: disconnect() leaves no reconnection timer pending, and no reconnection
\* timer starts a connect() after the caller's disconnect() has returned and
\* before the caller calls connect() again.
C7_DisconnectCancelsReconnection ==
    [][/\ RealtimeBrowserClient_disconnect => timers' = 0
       /\ (\E b \in BOOLEAN : RealtimeBrowserClient_reconnectTimerFires(b))
             => ~userStopped]_vars

\* C8: the delay of the k-th reconnection scheduled since the last successful
\* open is min(reconnectDelay * 2^(k-1), 30000): 1000, 2000, 4000 for the
\* first three, and never more than the maximum.
C8_BackoffDelay ==
    scheduledDelay # 0 =>
        /\ scheduledSinceOpen >= 1
        /\ scheduledDelay =
              Min(reconnectDelay * 2^(scheduledSinceOpen - 1), maxBackoffDelay)
        /\ scheduledDelay <= maxBackoffDelay
        /\ scheduledSinceOpen = 1 => scheduledDelay = 1000
        /\ scheduledSinceOpen = 2 => scheduledDelay = 2000
        /\ scheduledSinceOpen = 3 => scheduledDelay = 4000

C8_Witness == scheduledSinceOpen = 3 /\ scheduledDelay = 4000

\* C9: every open of a transport sets reconnectAttempts to zero, and the
\* first reconnection scheduled after an open has the base delay.
C9_OpenResetsAttempts ==
    /\ [][\A t \in Targets :
             (RealtimeBrowserClient_onopen(t) \/ RealtimeClient_dcOpen(t))
                 => reconnectAttempts' = 0]_vars
    /\ []((scheduledDelay # 0 /\ scheduledSinceOpen = 1)
             => scheduledDelay = reconnectDelay)

C9_Witness ==
    /\ variant = "browser"
    /\ reconnectTimer = "fired"
    /\ EmittedEv("connected", "")
    /\ reconnectAttempts = 0
    /\ isConnected

\* C10: once reconnectAttempts has reached the maximum, no close schedules a
\* further reconnection; and when the last attempt has failed (no timer
\* pending, no transport left) the client is disconnected and stays so until
\* the caller calls connect().
Exhausted ==
    /\ variant = "browser"
    /\ reconnectAttempts = maxReconnectAttempts
    /\ timers = 0
    /\ LiveCount(Transports) = 0

C10_NoReconnectAfterExhaustion ==
    /\ [][reconnectAttempts = maxReconnectAttempts
             => (scheduledDelay' = 0 /\ timers' <= timers)]_vars
    /\ [][(Exhausted /\ ~RealtimeBrowserClient_connect)
             => (Exhausted' /\ ~isConnected')]_vars
    /\ [](Exhausted => ~isConnected)

C10_Witness ==
    /\ Exhausted
    /\ EmittedEv("disconnected", "")
    /\ reconnectTimer = "fired"


\* a message handler of the client under analysis runs on frame f
MessageHandled(t, f) ==
    \/ RealtimeBrowserClient_onmessage(t, f)
    \/ ExactRealtimeClient_onmessage(t, f)
    \/ RealtimeClient_dcMessage(t, f)
    \/ SimpleRealtimeClient_onmessage(t, f)

\* C11: the close at which the client gives up (a close that would be retried
\* but for the attempt count having reached the maximum) emits a failure
\* event of its own, one that is neither the per-close 'disconnected' nor the
\* transport's websocket_error.
C11_GivingUpIsSignalled ==
    [][\A t \in Targets, o \in CloseEvents :
          (/\ RealtimeBrowserClient_onclose(t, o)
           /\ o[1] # 1000
           /\ ~RealtimeBrowserClient_isAuthClose(o[1], o[2])
           /\ reconnectAttempts = maxReconnectAttempts)
              => \E i \in 1..Len(emitted') :
                    /\ emitted'[i].name # "disconnected"
                    /\ emitted'[i].type # "websocket_error"]_vars

\* C12: when a transport that had been open closes without the client having
\* closed it, not for an authentication failure and with attempts left, the
\* closing step arms a reconnect timer: in the WebSocket client and in the
\* peer-connection client alike.
C12_TransientCloseIsRetried ==
    [][\A t \in Targets :
          (t.r.opened /\ t.r.closedBy = "none"
             /\ reconnectAttempts < maxReconnectAttempts)
          => /\ \A o \in CloseEvents :
                   (/\ RealtimeBrowserClient_onclose(t, o)
                    /\ o[1] # 1000
                    /\ ~RealtimeBrowserClient_isAuthClose(o[1], o[2]))
                       => (timers' = timers + 1 /\ scheduledDelay' # 0)
             /\ RealtimeClient_dcClose(t) => timers' = timers + 1]_vars

\* C13: a frame that parses and has a type the client has no case for is
\* emitted under that type with the whole frame as payload, and under '*'.
C13_UnknownTypeIsForwarded ==
    [][\A t \in Targets, f \in Frames :
          (MessageHandled(t, f) /\ f.ok /\ f.type = "vendor.unknown")
              => /\ \E i \in 1..Len(emitted') :
                       emitted'[i].name = f.type /\ emitted'[i].payload = "frame"
                 /\ \E i \in 1..Len(emitted') :
                       emitted'[i].name = "*" /\ emitted'[i].payload = "frame"]_vars

\* C14: every frame that parses, of a known or an unknown type, is emitted
\* exactly once under '*', whatever else it is emitted under.
C14_WildcardHearsEveryFrame ==
    [][\A t \in Targets, f \in Frames :
          (MessageHandled(t, f) /\ f.ok)
              => Cardinality({i \in 1..Len(emitted') : emitted'[i].name = "*"}) = 1]_vars

\* C15: on one connection the subscribers hear the emissions in the order
\* the frames were sent: whatever was emitted for a frame comes before
\* everything emitted for a later frame, also when frames that do not parse
\* lie in between and subscribers send commands from their handlers.
C15_EmissionsKeepFrameOrder ==
    \A i, j \in 1..Len(heard) : i < j => heard[i][1] <= heard[j][1]

C15_Witness ==
    /\ variant = "webrtc"
    /\ Len(heard) = 2 /\ heard[1][1] = 1 /\ heard[2][1] = 3
    /\ inbox = <<>>
    /\ lastWrite = "OPEN"

\* a session.created frame is handled
SessionCreatedHandled ==
    \E t \in Targets, f \in Frames :
        f.ok /\ f.type = "session.created"
          /\ (RealtimeBrowserClient_onmessage(t, f) \/ RealtimeClient_dcMessage(t, f))

\* what getSessionId() of the client under analysis returns
GetSessionId ==
    IF variant = "webrtc" THEN RealtimeClient_getSessionId
                          ELSE RealtimeBrowserClient_getSessionId

\* C16 as stated: after a frame {type: "session.created", session: {id: X}}
\* has been handled getSessionId() returns X, for every X, the empty string
\* included.
C16_SessionIdIsCapturedForEveryId ==
    [][\A t \in Targets, f \in Frames :
          (/\ f.ok /\ f.type = "session.created" /\ f.sid # "undefined"
           /\ (RealtimeBrowserClient_onmessage(t, f) \/ RealtimeClient_dcMessage(t, f)))
              => GetSessionId' = f.sid]_vars

\* C16 amended: after a frame {type: "session.created", session: {id: X}}
\* with a non-empty X has been handled getSessionId() returns X, and what
\* it returns changes only when another session.created frame is handled or
\* disconnect() runs.
C16_SessionIdIsCaptured ==
    [][/\ \A t \in Targets, f \in Frames :
             (/\ f.ok /\ f.type = "session.created" /\ f.sid \notin {"undefined", ""}
              /\ (RealtimeBrowserClient_onmessage(t, f) \/ RealtimeClient_dcMessage(t, f)))
                 => GetSessionId' = f.sid
       /\ GetSessionId' # GetSessionId
             => (SessionCreatedHandled \/ (ws'.rs = "NULL" /\ ~isConnected'))]_vars

C16_Witness ==
    /\ variant = "webrtc"
    /\ GetSessionId = "sess_abc"
    /\ \E i \in 1..Len(emitted) : emitted[i].name = "session.created"

\* C17: whenever the client is disconnected getSessionId() returns null.
C17_NoSessionWhileDisconnected == ~isConnected => GetSessionId = "null"

\* C18: a cancelResponse() on an open connection writes its frame, emits
\* nothing, returns normally and changes no field of the client, so a second
\* cancelResponse() leaves the client where the first one did.
C18_CancelIsQuietAndIdempotent ==
    [][(/\ isConnected /\ ws.rs = "OPEN"
        /\ \/ RealtimeBrowserClient_send("response.cancel")
           \/ RealtimeClient_sendEvent("response.cancel")
           \/ SimpleRealtimeClient_send("response.cancel"))
          => /\ emitted' = NoEmit
             /\ lastWrite' = "OPEN" /\ ret' = "returned"
             /\ uncaught' = FALSE /\ scheduledDelay' = 0 /\ settle' = "none"
             /\ client' = client /\ rtc' = rtc]_vars

C18_Witness ==
    /\ variant = "browser"
    /\ isConnected /\ ws.rs = "OPEN"
    /\ lastWrite = "OPEN" /\ ret = "returned" /\ emitted = NoEmit

\* C19: an error frame whose code is not an authentication code is emitted
\* as 'error' with the frame's error object as payload, and the step closes
\* nothing, keeps the connected flag and schedules nothing.
C19_OtherErrorsAreForwarded ==
    [][\A t \in Targets, f \in Frames :
          (/\ f.ok /\ f.type = "error" /\ f.err \notin {"invalid_api_key", "authentication_error"}
           /\ (RealtimeBrowserClient_onmessage(t, f) \/ RealtimeClient_dcMessage(t, f)))
              => /\ Len(emitted') = 1
                 /\ emitted'[1].name = "error" /\ emitted'[1].payload = "error"
                 /\ emitted'[1].err = f.err /\ emitted'[1].type = ""
                 /\ client' = client
                 /\ scheduledDelay' = 0]_vars

C19_Witness ==
    /\ variant = "browser"
    /\ isConnected /\ ws.rs = "OPEN"
    /\ Len(emitted) = 1 /\ emitted[1].name = "error"
    /\ emitted[1].err = "rate_limit_exceeded"

\* C20: the message event of a frame that does not parse emits nothing,
\* lets no exception escape and changes no field of the client; the frames
\* behind it are handled as they would have been.
C20_MalformedFrameIsDropped ==
    [][\A t \in Targets :
          (MessageEvent(t) /\ ~inbox[1].frame.ok)
              => /\ heard' = heard /\ emitted' = NoEmit
                 /\ uncaught' = FALSE
                 /\ client' = client /\ rtc' = rtc]_vars

C20_Witness ==
    /\ variant = "browser"
    /\ heard = << <<2, "response.text.delta">> >>
    /\ inbox = <<>>
    /\ isConnected /\ ws.rs = "OPEN"

\* the number of 'error' events among the events of one step
ErrorSignals(evs) == Cardinality({i \in 1..Len(evs) : evs[i].name = "error"})

\* the step in which the client learns that its current transport, still
\* connecting and not closed by the caller, could not be established
EstablishmentFails ==
    \/ \E t \in Targets :
          /\ t.own /\ t.r.rs = "CONNECTING" /\ t.r.closedBy = "none"
          /\ \/ RealtimeBrowserClient_onclose(t, Abnormal)
             \/ SimpleRealtimeClient_onclose(t, Abnormal)
             \/ RealtimeClient_sdpSettles(t, FALSE)
    \/ (pc = "set" /\ RealtimeClient_mediaSettles(FALSE))

\* C21: when the transport cannot be established during connect(), with a
\* subscriber listening for errors, the step that reports the failure emits
\* exactly one error event, rejects the promise of the connect() in flight
\* and leaves the client not connected.
C21_FailedConnectIsSignalledAndRejected ==
    [][(EstablishmentFails /\ errorListener)
          => (ErrorSignals(emitted') = 1 /\ settle' = "rejected"
              /\ ~isConnected')]_vars

\* the open callback of the client under analysis runs for transport t
OpenHandled(t) ==
    \/ RealtimeBrowserClient_onopen(t)
    \/ RealtimeClient_dcOpen(t)
    \/ SimpleRealtimeClient_onopen(t)

\* the number of 'connected' events among the events of one step
ConnectedSignals(evs) ==
    Cardinality({i \in 1..Len(evs) : evs[i].name = "connected"})

\* C22: the step in which a transport opens emits 'connected' exactly once
\* and resolves the promise of connect(), and at that moment the client is
\* open: its connected flag is set and the transport it holds is open.
C22_ConnectedMeansOpen ==
    [][\A t \in Targets :
          OpenHandled(t)
              => /\ ConnectedSignals(emitted') = 1
                 /\ settle' = "resolved"
                 /\ isConnected'
                 /\ ws'.rs = "OPEN"]_vars

\* disconnect() of the client under analysis is called
DisconnectCall ==
    \/ RealtimeBrowserClient_disconnect
    \/ RealtimeClient_disconnect
    \/ SimpleRealtimeClient_disconnect

\* a connect() is in flight or the transport is open
ConnectingOrOpen ==
    \/ ws.rs \in {"CONNECTING", "OPEN"}
    \/ (variant = "webrtc" /\ pc = "set" /\ awaitingMedia > 0)

\* the transports the caller has closed and whose close event is still to come
UserClosing(det) ==
    SumOver(det, {k \in LiveKinds : k.rs = "CLOSING" /\ k.closedBy = "user"})

\* C23: disconnect() on a connecting or open client leaves it holding no
\* transport and not connected, and 'disconnected' is emitted once for the
\* connection given up: either by disconnect() itself, or there is one more
\* transport closed by the caller, whose close event emits it.
C23_DisconnectEmitsDisconnectedOnce ==
    [][(DisconnectCall /\ ConnectingOrOpen)
          => /\ ws'.rs = "NULL" /\ ~isConnected'
             /\ \/ Cardinality({i \in 1..Len(emitted') :
                                   emitted'[i].name = "disconnected"}) = 1
                \/ UserClosing(detached') = UserClosing(detached) + 1]_vars

\* C24: no callback of the client (open, message, error, close, reconnect
\* timer) ends with an exception thrown out of it, whether or not an 'error'
\* subscriber is registered.
C24_NoUncaughtException == uncaught = FALSE

\* C25 as claimed: when a transport opens after a reconnection was scheduled,
\* the client itself writes no session.update.
C25_NoSessionUpdateAfterReconnect ==
    [][\A t \in Targets :
          (RealtimeBrowserClient_onopen(t) /\ reconnectAttempts > 0)
              => wrote' # "session.update"]_vars

\* C25: when a transport opens, after a reconnection as on the first
\* connection, the only frame the client writes by itself is its
\* authentication message, one session.update with fixed values, and it
\* writes it exactly when the transport it holds is open; a session.update
\* sent by the caller changes no field of the client, so there is nothing a
\* later open could replay.
C25_OnlyTheAuthMessageOnOpen ==
    [][/\ \A t \in Targets :
             RealtimeBrowserClient_onopen(t)
                 => /\ wrote' \in {"none", "session.update"}
                    /\ wrote' = "session.update" <=> ws'.rs = "OPEN"
       /\ RealtimeBrowserClient_send("session.update")
             => UNCHANGED <<client, rtc>>]_vars

C25_Witness ==
    /\ variant = "browser"
    /\ reconnectTimer = "fired" /\ scheduledSinceOpen = 0
    /\ ws.rs = "OPEN" /\ isConnected
    /\ wrote = "session.update"
    /\ ConnectedSignals(emitted) = 1

\* C26: a byte buffer that has been base64-encoded by a client and decoded
\* by playBase64Audio comes out as it went in, byte for byte, whatever its
\* length (0, 1, 2, a multiple of 3 or not).
C26_Base64RoundTrip ==
    audio.stage = "decoded" => audio.out = audio.buf

C26_Witness ==
    /\ audio.stage = "decoded"
    /\ Len(audio.buf) = MaxBytes /\ Len(audio.buf) % 3 # 0
    /\ audio.buf[MaxBytes] = 255 /\ audio.buf[1] = 0
    /\ audio.b64[Len(audio.b64)] = Base64Pad
    /\ audio.out = audio.buf

\* a command emitter of the WebSocket client or of the peer-connection client
\* is called and hands a frame of type c to send() / sendEvent()
EmitterCall(c) ==
    \/ RealtimeBrowserClient_send(c)
    \/ RealtimeClient_sendEvent(c)

\* C27: a command emitter called on an open client writes exactly its one
\* frame to the open transport and returns, and changes nothing of the
\* client: not the session id, the conversation id, the connected flag, the
\* attempt counter or the subscribers, and it emits nothing.
C27_CommandEmittersArePassThroughs ==
    [][\A c \in RealtimeClient_Commands :
          (EmitterCall(c) /\ ws.rs = "OPEN" /\ isConnected)
              => /\ wrote' = c /\ lastWrite' = "OPEN" /\ ret' = "returned"
                 /\ emitted' = NoEmit
                 /\ UNCHANGED <<sessionId, conversationId, isConnected,
                                reconnectAttempts, errorListener, ws>>]_vars

C27_Witness ==
    /\ variant = "webrtc"
    /\ wrote = "conversation.item.truncate" /\ lastWrite = "OPEN"
    /\ ret = "returned"
    /\ isConnected /\ ws.rs = "OPEN"
    /\ sessionId = "sess_abc" /\ errorListener

\* C28: the client holds a transport handle only while it is connecting, open
\* or waiting to reconnect: a handle to a transport that is closed, or whose
\* connect() has failed, is held only while a reconnect timer is pending, and
\* a peer connection only while a connect() is in flight or its channel lives
\* (RealtimeBrowserClient and RealtimeClient).
C28_HandleOnlyWhileActive ==
    variant \in {"browser", "webrtc"}
        => /\ ws.rs \in {"CLOSED", "STALLED"} => timers > 0
           /\ pc = "set" => \/ awaitingMedia > 0
                            \/ ws.rs \in {"CONNECTING", "OPEN", "CLOSING"}

\* the transports of the client that are connecting or open; each of them
\* still has the client's handlers attached
ConnectingOrOpenCount(T) ==
    (IF T.ws.rs \in {"CONNECTING", "OPEN"} THEN 1 ELSE 0)
    + SumOver(T.det, {k \in LiveKinds : k.rs \in {"CONNECTING", "OPEN"}})

\* C29: at no time has the client more than one socket or data channel that
\* is connecting or open and has its handlers attached.
C29_AtMostOneLiveTransport == ConnectingOrOpenCount(Transports) <= 1

\* the close callback of the client under analysis runs for transport t
CloseHandled(t) ==
    \/ \E o \in CloseEvents : RealtimeBrowserClient_onclose(t, o)
    \/ \E o \in CloseEvents : SimpleRealtimeClient_onclose(t, o)
    \/ RealtimeClient_dcClose(t)

\* C30: when the close event of an earlier transport, one the caller closed
\* with disconnect(), is delivered while the client is connected on a new
\* open transport, the connected flag stays set and no 'disconnected' is
\* emitted.
C30_StaleCloseLeavesNewConnection ==
    [][\A t \in Targets :
          (/\ CloseHandled(t)
           /\ ~t.own /\ t.r.closedBy = "user"
           /\ ws.rs = "OPEN" /\ isConnected)
              => /\ isConnected'
                 /\ \A i \in 1..Len(emitted') :
                       emitted'[i].name # "disconnected"]_vars

\* C31: at most one reconnect timer is pending, and when one is pending the
\* reconnectTimer field names it, so that the clearTimeout of disconnect()
\* leaves no timer pending.
C31_OnePendingTimerNamedByField ==
    /\ timers <= 1
    /\ timers = 1 => reconnectTimer = "pending"

\* C32: the attempt counter never leaves 0..maxReconnectAttempts, whatever
\* the order of close events, timer firings, opens and connect() /
\* disconnect() calls.
C32_AttemptsStayInRange ==
    reconnectAttempts >= 0 /\ reconnectAttempts <= maxReconnectAttempts

C32_Witness ==
    /\ variant = "browser"
    /\ reconnectAttempts = maxReconnectAttempts
    /\ reconnectTimer = "pending" /\ timers = 1
    /\ scheduledDelay > 0

\* the connection signals s, seen after the signal last, alternate
RECURSIVE Alternates(_, _)
Alternates(last, s) ==
    \/ s = <<>>
    \/ /\ Head(s) = "connected" => last # "connected"
       /\ Head(s) = "disconnected" => last = "connected"
       /\ Alternates(Head(s), Tail(s))

\* C33: 'connected' and 'disconnected' alternate, 'connected' first: no step
\* emits 'connected' when the last of the two signals was 'connected', nor
\* 'disconnected' when it was not.
C33_SignalsAlternate ==
    [][Alternates(lastSignal, ConnectionSignals(emitted'))]_vars

\* C34: a parsed frame with a type, once through the switch of a client, has
\* been emitted exactly once on a named channel (the wildcard not counted),
\* whatever its type and whatever the role of its item.
C34_OneNamedEmissionPerFrame ==
    demux.stage = "done"
        => Cardinality({i \in 1..Len(demux.out) : demux.out[i].name # "*"}) = 1

\* C35: when emit() returns, every handler that was registered (once) when
\* the dispatch started has been invoked exactly once, whatever off() calls
\* the handlers made meanwhile.
C35_EveryRegisteredHandlerIsInvoked ==
    dispatch.phase = "done" =>
        LET Occurrences(list, h) ==
                Cardinality({i \in 1..Len(list) : list[i] = h})
        IN  \A h \in Handlers :
                Occurrences(dispatch.atStart, h) = 1
                    => Occurrences(dispatch.invoked, h) = 1

\* C36: on(event, h) leaves every handler registered earlier for the event
\* in place and adds h after them.
C36_OnKeepsEarlierHandlers ==
    [][\A h \in Handlers :
          (SimpleRealtimeClient_on(h) \/ ExactRealtimeClient_on(h))
              => eventHandlers' = Append(eventHandlers, h)]_vars

\* C37: createResponse(options) writes a frame with a response object
\* carrying the supplied values whenever at least one of the six options is
\* supplied, whatever the value (a temperature of 0 included), and a frame
\* with no response object when none is supplied.
C37_ResponseObjectIffOptionSupplied ==
    created.stage = "sent" =>
        /\ created.hasResponse =
              (\E field \in ResponseFields :
                  created.options[field] # "undefined")
        /\ created.hasResponse => created.response = created.options

\* C38: at no time is more than one client created by the hook connected,
\* and once disconnect() (or the unmount cleanup) was the hook's last call
\* and every connect in flight has settled, no client created by the hook
\* is connected.
C38_DisconnectLeavesNoClientConnected ==
    LET HookClients(status) ==
            {c \in 1..MaxClients : hook.clients[c] = status}
    IN  /\ Cardinality(HookClients("connected")) <= 1
        /\ (hook.lastCall = "disconnect" /\ HookClients("connecting") = {})
              => HookClients("connected") = {}

\* C39: never more than one buffer source is started and not ended, and
\* isPlaying is true exactly while there is one (between two steps of the
\* player the queue is not in the middle of being drained).
C39_OneSourceAndIsPlayingTracksIt ==
    LET StartedNotEnded == player.sources + player.closed
    IN  /\ StartedNotEnded <= 1
        /\ player.isPlaying <=> StartedNotEnded = 1
====
